---- MODULE Spec2Model ----
(***************************************************************************)
(* False-note detection pipeline: reference contour (services/             *)
(* midi_processor.py), alignment (services/aligner.py), deviation          *)
(* detection (services/error_detector.py), scoring (services/scoring.py)   *)
(* and the upload handler that chains them (routes/upload.py).             *)
(*                                                                         *)
(* Frequencies.  A frame of a contour is 0 (silence, 0.0 Hz) or a MIDI     *)
(* note number n >= 1 standing for the frequency 440 * 2^((n-69)/12) Hz    *)
(* (69 = 440 Hz, 81 = 880 Hz, 57 = 220 Hz).  The encoding is strictly      *)
(* increasing in the frequency, f > 0.0 is n > 0, and                      *)
(* 1200*log2(f_a/f_r) is exactly 100*(a - r).                              *)
(*                                                                         *)
(* Indices.  Frame indices, error indices and the pairs of a DTW path are  *)
(* 0-based as in the code; a TLA+ sequence s holds frame i at s[i+1].      *)
(***************************************************************************)
EXTENDS Integers, Sequences, FiniteSets, TLC

VARIABLES
    MAX_DTW_LENGTH,     \* config.MAX_DTW_LENGTH, read from the environment
    pc,                 \* position of the request / of the call under test
    f_audio,            \* performance contour (seq1 of align_and_warp)
    f_ref,              \* reference contour (seq2 of align_and_warp)
    threshold_cents,    \* detect_errors parameters
    ignore_silence,
    smooth_window,
    min_error_frames,
    dynamic_threshold,  \* threshold detect_errors applied (NoThreshold if none)
    dtw,                \* what the fastdtw call did (NotCalled if not run)
    route,              \* the return/raise statement align_and_warp left by
    f_audio_aligned,    \* the aligned pair
    f_ref_aligned,
    error_indices,      \* result of detect_errors
    detect_calls,       \* number of detect_errors calls made on the pair
    score,              \* summary computed by upload_files / compute_score
    error,              \* exception that ended the call, "none" otherwise
    midi,               \* the MIDI file: its instruments, each a sequence of notes
    target_sr,          \* parse_midi parameters
    instrument_index,
    merge_instruments,
    audio,              \* the two uploads of the request (UploadFile)
    reference,
    generate_recommendations_flag,
    ENABLE_RECOMMENDATIONS,      \* the config flag or the environment variable
    MAX_ERROR_INDICES_RETURNED,  \* config.MAX_ERROR_INDICES_RETURNED
    tmp_files,          \* the files of the temporary directory
    audio_path,         \* upload_files locals naming its temporary files
    ref_path,
    response,           \* what upload_files returned or raised
    suspended           \* locals of the requests that are not running

vars == << MAX_DTW_LENGTH, pc, f_audio, f_ref, threshold_cents,
           dynamic_threshold,
           ignore_silence, smooth_window, min_error_frames, dtw, route,
           f_audio_aligned, f_ref_aligned, error_indices, detect_calls,
           score, error, midi, target_sr, instrument_index,
           merge_instruments, audio, reference,
           generate_recommendations_flag, ENABLE_RECOMMENDATIONS,
           MAX_ERROR_INDICES_RETURNED, tmp_files, audio_path, ref_path,
           response, suspended >>

\* the MIDI file and the parameters of parse_midi
midi_vars == << midi, target_sr, instrument_index, merge_instruments >>

\* the inputs of an upload request and the configuration it reads
request_vars == << audio, reference, generate_recommendations_flag,
                   ENABLE_RECOMMENDATIONS, MAX_ERROR_INDICES_RETURNED >>

\* the temporary files of upload_files, its outcome, the other requests
upload_vars == << request_vars, tmp_files, audio_path, ref_path, response,
                  suspended >>

----------------------------------------------------------------------------
(* Bounds of the model *)

\* longest contour of the exhaustively enumerated short contours
MaxLen == 3

\* long contours have 10..MaxLongLen frames (the near-equal-length fast path
\* needs max/min < 1.1 with max # min, hence at least 11 and 12 frames)
MaxLongLen == 12

\* longest aligned pair handed directly to detect_errors
MaxFrames == 4

\* calls of detect_errors made on one aligned pair
MaxDetectCalls == 2

----------------------------------------------------------------------------
(* Program constants *)

\* detect_errors(smooth_window = 3)
DefaultSmoothWindow == 3

\* detect_errors(min_error_frames = 3)
DefaultMinErrorFrames == 3

----------------------------------------------------------------------------
(* Values *)

\* silence, A4 (440 Hz), A5 (880 Hz)
Freqs == {0, 69, 81}

Min2(a, b) == IF a <= b THEN a ELSE b

Max2(a, b) == IF a >= b THEN a ELSE b

Abs(x) == IF x < 0 THEN -x ELSE x

SeqsUpTo(S, n) == UNION { [1..k -> S] : k \in 0..n }

\* every contour of at most MaxLen frames
ShortContours == SeqsUpTo(Freqs, MaxLen)

\* chromatic runs of 10..MaxLongLen frames, every frame different
LongContours == { [i \in 1..L |-> 57 + i] : L \in 10..MaxLongLen }

\* values of the MAX_DTW_LENGTH environment setting
DtwCaps == (MaxLen - 1)..MaxLen

\* f as an explicit tuple (TLC evaluates the tuple once instead of the
\* function expression at every access)
AsSeq(f) == f \o << >>

\* seq[:n] for n >= 0
Slice(seq, n) == SubSeq(seq, 1, Min2(n, Len(seq)))

----------------------------------------------------------------------------
(* fastdtw (third-party): the call either raises or returns a warping path *)

NotCalled == [raised |-> "not_called", path |-> << >>]

RECURSIVE PathsTo(_, _)
\* the warping paths from (0,0) to (i,j): steps (1,0), (0,1), (1,1)
PathsTo(i, j) ==
    IF i = 0 /\ j = 0 THEN { << <<0, 0>> >> }
    ELSE LET prev == { q \in { <<i - 1, j>>, <<i, j - 1>>, <<i - 1, j - 1>> } :
                         q[1] >= 0 /\ q[2] >= 0 }
         IN  UNION { { Append(p, <<i, j>>) : p \in PathsTo(q[1], q[2]) } : q \in prev }

WarpPaths(n1, n2) == PathsTo(n1 - 1, n2 - 1)

fastdtw(seq1, seq2) ==
    { [raised |-> "MemoryError", path |-> << >>],
      [raised |-> "Exception", path |-> << >>] }
    \cup { [raised |-> "none", path |-> p] : p \in WarpPaths(Len(seq1), Len(seq2)) }

----------------------------------------------------------------------------
(* align_and_warp *)

Raise(kind) ==
    [raised |-> kind, route |-> "raise", aligned1 |-> << >>, aligned2 |-> << >>]

Return(r, a1, a2) ==
    [raised |-> "none", route |-> r, aligned1 |-> a1, aligned2 |-> a2]

\* mutant: only the first contour is cut
TruncateFirstOnly(seq1, seq2, min_len) ==
    << Slice(seq1, min_len), seq2 >>

\* seq1[:min_len], seq2[:min_len]
TruncateBoth(seq1, seq2, min_len) ==
    << Slice(seq1, min_len), Slice(seq2, min_len) >>

\* length_ratio < 1.1 with length_ratio = max(n1,n2) / min(n1,n2); the
\* quotient of two small integers is below the double 1.1 exactly when
\* 10*max < 11*min
SimilarLengths(n1, n2) == 10 * Max2(n1, n2) < 11 * Min2(n1, n2)

\* mutant: the length guard is tested before the similar-lengths test
RouteGuardFirst(seq1, seq2, cap) ==
    IF Min2(Len(seq1), Len(seq2)) = 0 THEN "ZeroDivisionError"
    ELSE IF Len(seq1) > cap \/ Len(seq2) > cap THEN "truncate"
    ELSE IF 10 * Max2(Len(seq1), Len(seq2)) < 11 * Min2(Len(seq1), Len(seq2))
         THEN "fast"
    ELSE "dtw"

\* the statements of align_and_warp after the input validation, up to the
\* decision to run DTW: "raise", "fast", "truncate" or "dtw"
RouteAfterValidation(seq1, seq2, cap) ==
    IF Min2(Len(seq1), Len(seq2)) = 0 THEN "ZeroDivisionError"
    ELSE IF SimilarLengths(Len(seq1), Len(seq2)) THEN "fast"
    ELSE IF Len(seq1) > cap \/ Len(seq2) > cap THEN "truncate"
    ELSE "dtw"

\* mutant: no input validation
AlignRouteUnvalidated(seq1, seq2, cap) ==
    RouteAfterValidation(seq1, seq2, cap)

AlignRoute(seq1, seq2, cap) ==
    IF Len(seq1) = 0 \/ Len(seq2) = 0 THEN "ValueError"
    ELSE RouteAfterValidation(seq1, seq2, cap)

\* mutant: the cap is left out of the minimum
TruncateLengthUncapped(seq1, seq2, cap) == Min2(Len(seq1), Len(seq2))

\* min_len of the over-length truncation
TruncateLength(seq1, seq2, cap) == Min2(Min2(Len(seq1), Len(seq2)), cap)

\* mutant: the failure is re-raised as ValueError, as align_sequences does
DtwFailureRaises(seq1, seq2, d) == Raise("ValueError")

\* the except clauses around the fastdtw call
DtwFailure(seq1, seq2, d) ==
    LET t == TruncateBoth(seq1, seq2, Min2(Len(seq1), Len(seq2)))
    IN  Return("fallback", t[1], t[2])

\* aligned_seq1 / aligned_seq2 filled along the path (np.zeros where the
\* index is out of range)
Warp(seq, path, c) ==
    AsSeq([k \in 1..Len(path) |->
             IF path[k][c] < Len(seq) THEN seq[path[k][c] + 1] ELSE 0])

\* mutant: the two components of the path pairs are swapped
WarpBothSwapped(seq1, seq2, path) ==
    Return("dtw", Warp(seq1, path, 2), Warp(seq2, path, 1))

WarpBoth(seq1, seq2, path) ==
    Return("dtw", Warp(seq1, path, 1), Warp(seq2, path, 2))

\* d is the outcome of the fastdtw call, NotCalled when the route is not "dtw"
align_and_warp(seq1, seq2, cap, d) ==
    LET r == AlignRoute(seq1, seq2, cap)
    IN  CASE r = "ValueError" -> Raise("ValueError")
          [] r = "ZeroDivisionError" -> Raise("ZeroDivisionError")
          [] r = "fast" ->
                LET t == TruncateBoth(seq1, seq2, Min2(Len(seq1), Len(seq2)))
                IN  Return("fast", t[1], t[2])
          [] r = "truncate" ->
                LET t == TruncateBoth(seq1, seq2, TruncateLength(seq1, seq2, cap))
                IN  Return("truncate", t[1], t[2])
          [] r = "dtw" /\ d.raised \in {"MemoryError", "Exception"} ->
                DtwFailure(seq1, seq2, d)
          [] OTHER -> WarpBoth(seq1, seq2, d.path)

\* the outcomes of the fastdtw call made by align_and_warp, if it makes one
DtwOutcomes(seq1, seq2, cap) ==
    IF AlignRoute(seq1, seq2, cap) = "dtw" THEN fastdtw(seq1, seq2)
    ELSE { NotCalled }

\* the two returns ahead of the fastdtw call are taken exactly when
\* AlignRoute says so; any other route is settled by the call itself
RouteOpen(r, seq1, seq2, cap) ==
    \E before \in { AlignRoute(seq1, seq2, cap) } :
        (r \in {"fast", "truncate"} \/ before \in {"fast", "truncate"})
            => r = before

\* one call of align_and_warp(f_audio, f_ref) that leaves by route r
AlignAndWarp(r) ==
    /\ pc = "align"
    /\ RouteOpen(r, f_audio, f_ref, MAX_DTW_LENGTH)
    /\ \E d \in DtwOutcomes(f_audio, f_ref, MAX_DTW_LENGTH) :
         /\ \E res \in { align_and_warp(f_audio, f_ref, MAX_DTW_LENGTH, d) } :
              /\ res.route = r
              /\ dtw' = d
              /\ route' = res.route
              /\ f_audio_aligned' = res.aligned1
              /\ f_ref_aligned' = res.aligned2
              /\ error' = res.raised
              /\ pc' = IF res.raised = "none" THEN "aligned" ELSE "error"
    /\ UNCHANGED << upload_vars, midi_vars, MAX_DTW_LENGTH, f_audio, f_ref, threshold_cents,
                    dynamic_threshold,
                    ignore_silence, smooth_window, min_error_frames,
                    error_indices, detect_calls, score >>

AlignRaise == AlignAndWarp("raise")

AlignFast == AlignAndWarp("fast")

AlignTruncate == AlignAndWarp("truncate")

AlignFallback == AlignAndWarp("fallback")

AlignDtw == AlignAndWarp("dtw")

----------------------------------------------------------------------------
(* align_and_warp called directly on any two contours *)

\* no MIDI file is part of the call
NoMidi == << >>

\* config.TARGET_SAMPLING_RATE, frames per second
TARGET_SAMPLING_RATE == 100

\* dynamic_threshold before detect_errors assigns it
NoThreshold == -1

\* the summary before it is computed
NoScore ==
    [total_frames |-> 0, incorrect_frames |-> 0, correct_frames |-> 0,
     mean_cents |-> [num |-> 0, den |-> 1], max_cents |-> 0,
     accuracy |-> [num |-> 0, den |-> 1]]

\* the content of a file: a decodable recording with the contour
\* extract_pitch gets from it, a MIDI file with its instruments, or bytes
\* that are neither
Recording(c) == [kind |-> "audio", contour |-> c, instruments |-> << >>]
MidiFile(m) == [kind |-> "midi", contour |-> << >>, instruments |-> m]
Garbage == [kind |-> "garbage", contour |-> << >>, instruments |-> << >>]
EmptyFile == [kind |-> "empty", contour |-> << >>, instruments |-> << >>]

\* an upload: accepted says that the type and size checks pass, data_uri
\* that the bytes are a base64 data URI wrapping the payload
NoUpload == [accepted |-> FALSE, data_uri |-> FALSE, payload |-> EmptyFile]

\* audio_path = None, ref_path = None
NoPath == 0

\* the AnalysisResult before it is built
NoResult ==
    [total_frames |-> 0, correct_frames |-> 0, incorrect_frames |-> 0,
     mean_cents |-> [num |-> 0, den |-> 1], max_cents |-> 0,
     accuracy_percent |-> [num |-> 0, den |-> 1], error_indices |-> << >>,
     duration_seconds |-> [num |-> 0, den |-> 1], threshold_cents |-> 0]

\* no response yet
NoResponse == [status |-> 0, body |-> NoResult]

\* no upload request is part of the run
NoRequest ==
    /\ audio = NoUpload
    /\ reference = NoUpload
    /\ generate_recommendations_flag = FALSE
    /\ ENABLE_RECOMMENDATIONS = FALSE
    /\ MAX_ERROR_INDICES_RETURNED = 10000
    /\ tmp_files = {}
    /\ audio_path = NoPath
    /\ ref_path = NoPath
    /\ response = NoResponse
    /\ suspended = << >>

InitAlign ==
    /\ MAX_DTW_LENGTH \in DtwCaps
    /\ pc = "align"
    /\ f_audio \in ShortContours \cup LongContours
    /\ f_ref \in ShortContours \cup LongContours
    /\ threshold_cents = 40
    /\ dynamic_threshold = NoThreshold
    /\ ignore_silence = TRUE
    /\ smooth_window = DefaultSmoothWindow
    /\ min_error_frames = DefaultMinErrorFrames
    /\ dtw = NotCalled
    /\ route = "none"
    /\ f_audio_aligned = << >>
    /\ f_ref_aligned = << >>
    /\ error_indices = << >>
    /\ detect_calls = 0
    /\ score = NoScore
    /\ error = "none"
    /\ midi = NoMidi
    /\ target_sr = TARGET_SAMPLING_RATE
    /\ instrument_index = 0
    /\ merge_instruments = FALSE
    /\ NoRequest

NextAlign ==
    \/ AlignRaise
    \/ AlignFast
    \/ AlignTruncate
    \/ AlignFallback
    \/ AlignDtw

SpecAlign == InitAlign /\ [][NextAlign]_vars

----------------------------------------------------------------------------
(* detect_errors *)

\* 1200.0 * np.log2(f_a / f_r) for two voiced frames (note numbers)
Cents(f_a, f_r) == 100 * (f_a - f_r)

\* mask = (f_audio > 0.0) & (f_ref > 0.0)
ValidMask(f_a, f_r) ==
    AsSeq([i \in 1..Len(f_a) |-> f_a[i] > 0 /\ f_r[i] > 0])

AnyTrue(mask) == \E i \in 1..Len(mask) : mask[i]

\* cents_diff = zeros; cents_diff[mask] = 1200 * log2(f_audio[mask] / f_ref[mask])
CentsDiff(f_a, f_r) ==
    AsSeq([i \in 1..Len(f_a) |->
             IF f_a[i] > 0 /\ f_r[i] > 0 THEN Cents(f_a[i], f_r[i]) ELSE 0])

\* the r-th smallest element of the non-empty sequence w (r = 1 is the least)
KthSmallest(w, r) ==
    CHOOSE v \in { w[j] : j \in 1..Len(w) } :
        /\ Cardinality({ j \in 1..Len(w) : w[j] < v }) < r
        /\ Cardinality({ j \in 1..Len(w) : w[j] <= v }) >= r

\* np.median: the middle element, or the mean of the two middle elements.
\* Every value met here is a multiple of 100, so the mean is an integer.
Median(w) ==
    IF Len(w) % 2 = 1 THEN KthSmallest(w, (Len(w) + 1) \div 2)
    ELSE (KthSmallest(w, Len(w) \div 2) + KthSmallest(w, Len(w) \div 2 + 1)) \div 2

\* scipy.signal.medfilt pads the array with zeros at both ends
Padded(x, i) == IF i \in 1..Len(x) THEN x[i] ELSE 0

Window(x, i, k) == AsSeq([j \in 1..k |-> Padded(x, i - (k \div 2) + j - 1)])

\* scipy.signal.medfilt(x, kernel_size = k)[i] for odd k
medfilt(x, k, i) == Median(Window(x, i, k))

\* mutant: an array as long as the window is filtered too
SmoothingAppliesAtWindowLength(cents, sw) == sw > 1 /\ Len(cents) >= sw

\* the median filter is run
SmoothingApplies(cents, sw) == sw > 1 /\ Len(cents) > sw

\* scipy.signal.medfilt raises ValueError for an even kernel_size
MedfiltRaises(cents, sw) == SmoothingApplies(cents, sw) /\ sw % 2 = 0

\* cents_diff after the smoothing step: cents_diff[mask] = cents_smoothed[mask]
Smoothed(cents, mask, sw) ==
    IF SmoothingApplies(cents, sw)
    THEN AsSeq([i \in 1..Len(cents) |->
                  IF mask[i] THEN medfilt(cents, sw, i) ELSE cents[i]])
    ELSE cents

RECURSIVE MaskedAbs(_, _, _)
\* np.abs(cents_diff[mask]), from frame k on
MaskedAbs(cents, mask, k) ==
    IF k > Len(cents) THEN << >>
    ELSE IF mask[k] THEN << Abs(cents[k]) >> \o MaskedAbs(cents, mask, k + 1)
    ELSE MaskedAbs(cents, mask, k + 1)

\* mutant: the 10-cent margin is not added to the median
DynamicThresholdNoMargin(t, cents, mask) ==
    IF t <= 0
    THEN LET abs_cents == MaskedAbs(cents, mask, 1)
         IN  IF Len(abs_cents) > 0
             THEN Max2(10, Min2(Median(abs_cents), 200))
             ELSE 40
    ELSE t

\* dynamic_threshold
DynamicThreshold(t, cents, mask) ==
    IF t <= 0
    THEN LET abs_cents == MaskedAbs(cents, mask, 1)
         IN  IF Len(abs_cents) > 0
             THEN Max2(10, Min2(Median(abs_cents) + 10, 200))
             ELSE 40
    ELSE t

\* mutant: the comparison with the threshold is inverted
RawErrorInverted(f_a, f_r, cents, mask, thr, ign, i) ==
    LET pitch_error == mask[i] /\ Abs(cents[i]) < thr
        silence_mismatch == (f_a[i] = 0) # (f_r[i] = 0)
    IN  IF ign THEN pitch_error ELSE (pitch_error \/ silence_mismatch)

\* raw_error_mask at frame i (1-based position)
RawError(f_a, f_r, cents, mask, thr, ign, i) ==
    LET pitch_error == mask[i] /\ Abs(cents[i]) > thr
        silence_mismatch == (f_a[i] = 0) # (f_r[i] = 0)
    IN  IF ign THEN pitch_error ELSE (pitch_error \/ silence_mismatch)

RECURSIVE Where(_, _)
\* np.where(m)[0] from frame k on: the 0-based indices of the true entries
Where(m, k) ==
    IF k > Len(m) THEN << >>
    ELSE IF m[k] THEN << k - 1 >> \o Where(m, k + 1)
    ELSE Where(m, k + 1)

RECURSIVE GroupRuns(_, _, _, _, _, _)
\* the loop over raw_error_indices[1:], then the final runs.append
GroupRuns(idxs, k, start, prev, count, runs) ==
    IF k > Len(idxs) THEN Append(runs, << start, prev, count >>)
    ELSE IF idxs[k] = prev + 1
         THEN GroupRuns(idxs, k + 1, start, idxs[k], count + 1, runs)
         ELSE GroupRuns(idxs, k + 1, idxs[k], idxs[k], 1,
                        Append(runs, << start, prev, count >>))

\* mutant: the run is extended by the frame after its end
RangeSeqPastEnd(a, b) == AsSeq([i \in 1..(b - a + 2) |-> a + i - 1])

\* list(range(a, b + 1))
RangeSeq(a, b) == AsSeq([i \in 1..(b - a + 1) |-> a + i - 1])

RECURSIVE CollectLongerRuns(_, _, _)
\* mutant: a run must be longer than min_error_frames to be kept
CollectLongerRuns(runs, k, mef) ==
    IF k > Len(runs) THEN << >>
    ELSE IF runs[k][3] > mef
         THEN RangeSeq(runs[k][1], runs[k][2]) \o CollectLongerRuns(runs, k + 1, mef)
         ELSE CollectLongerRuns(runs, k + 1, mef)

RECURSIVE CollectRuns(_, _, _)
\* filtered_indices, from run k on
CollectRuns(runs, k, mef) ==
    IF k > Len(runs) THEN << >>
    ELSE IF runs[k][3] >= mef
         THEN RangeSeq(runs[k][1], runs[k][2]) \o CollectRuns(runs, k + 1, mef)
         ELSE CollectRuns(runs, k + 1, mef)

\* mutant: the filter keeps the runs shorter than min_error_frames
FilterRunsInverted(raw, mef) ==
    IF mef <= 1 THEN raw
    ELSE LET long == CollectRuns(GroupRuns(raw, 2, raw[1], raw[1], 1, << >>),
                                 1, mef)
             Short(i) == \A k \in 1..Len(long) : long[k] # i
         IN  SelectSeq(raw, Short)

\* the run-length filter applied to the non-empty raw_error_indices
FilterRuns(raw, mef) ==
    IF mef <= 1 THEN raw
    ELSE CollectRuns(GroupRuns(raw, 2, raw[1], raw[1], 1, << >>), 1, mef)

\* raw_error_indices
RawErrorIndices(f_a, f_r, t, ign, sw) ==
    LET mask == ValidMask(f_a, f_r)
        cents == Smoothed(CentsDiff(f_a, f_r), mask, sw)
        thr == DynamicThreshold(t, cents, mask)
        raw_error_mask ==
            AsSeq([i \in 1..Len(f_a) |->
                     RawError(f_a, f_r, cents, mask, thr, ign, i)])
    IN  Where(raw_error_mask, 1)

\* mutant: cents_diff aliases f_audio, so the writes to it land in the input
ArraysAliased(f_a, f_r, cents) == << cents, f_r >>

\* the two argument arrays as the call leaves them: cents_diff is a new array
\* (np.zeros_like) and receives every in-place write
ArraysAfterDetect(f_a, f_r, cents) == << f_a, f_r >>

\* the part of detect_errors after the threshold resolution: cents is
\* cents_diff after the smoothing step, thr is dynamic_threshold
ClassifyAndFilter(f_a, f_r, mask, cents, thr, ign, mef) ==
    LET raw == Where(AsSeq([i \in 1..Len(f_a) |->
                              RawError(f_a, f_r, cents, mask, thr, ign, i)]), 1)
    IN  [raised |-> "none",
         indices |-> IF Len(raw) = 0 THEN << >> ELSE FilterRuns(raw, mef),
         threshold |-> thr,
         arrays |-> ArraysAfterDetect(f_a, f_r, cents)]

\* the part of detect_errors after the smoothing step
ResolveAndClassify(f_a, f_r, mask, cents, t, ign, mef) ==
    ClassifyAndFilter(f_a, f_r, mask, cents, DynamicThreshold(t, cents, mask),
                      ign, mef)

\* mutant: no return at the "no valid frames" test
detect_errors_always_classifies(f_a, f_r, t, ign, sw, mef) ==
    LET mask == ValidMask(f_a, f_r)
        cents0 == CentsDiff(f_a, f_r)
    IN  IF MedfiltRaises(cents0, sw)
        THEN [raised |-> "ValueError", indices |-> << >>,
              arrays |-> ArraysAfterDetect(f_a, f_r, cents0),
              threshold |-> NoThreshold]
        ELSE ResolveAndClassify(f_a, f_r, mask, Smoothed(cents0, mask, sw),
                                t, ign, mef)

\* one call: what is raised, what is returned, the argument arrays after it
\* and the threshold the call applied
detect_errors(f_a, f_r, t, ign, sw, mef) ==
    LET mask == ValidMask(f_a, f_r)
        cents0 == CentsDiff(f_a, f_r)
    IN  IF ~AnyTrue(mask)
        THEN [raised |-> "none", indices |-> << >>, arrays |-> << f_a, f_r >>,
              threshold |-> NoThreshold]
        ELSE IF MedfiltRaises(cents0, sw)
        THEN [raised |-> "ValueError", indices |-> << >>,
              arrays |-> ArraysAfterDetect(f_a, f_r, cents0),
              threshold |-> NoThreshold]
        ELSE ResolveAndClassify(f_a, f_r, mask, Smoothed(cents0, mask, sw),
                                t, ign, mef)

\* a call of detect_errors on the aligned pair with the parameters of the state
DetectCall(from) ==
    /\ pc = from
    /\ \E res \in { detect_errors(f_audio_aligned, f_ref_aligned,
                                 threshold_cents, ignore_silence,
                                 smooth_window, min_error_frames) } :
           /\ error_indices' = res.indices
           /\ f_audio_aligned' = res.arrays[1]
           /\ f_ref_aligned' = res.arrays[2]
           /\ dynamic_threshold' = res.threshold
           /\ error' = res.raised
           /\ pc' = IF res.raised = "none" THEN "detected" ELSE "error"
    /\ detect_calls' = detect_calls + 1
    /\ UNCHANGED << upload_vars, midi_vars, MAX_DTW_LENGTH, f_audio, f_ref, threshold_cents,
                    ignore_silence, smooth_window, min_error_frames, dtw,
                    route, score >>

DetectErrors == DetectCall("aligned")

\* the same call made once more on the same pair
DetectAgain == detect_calls < MaxDetectCalls /\ DetectCall("detected")

----------------------------------------------------------------------------
(* compute_score and the summary of upload_files *)

RECURSIVE SumSeq(_, _)
SumSeq(w, k) == IF k > Len(w) THEN 0 ELSE w[k] + SumSeq(w, k + 1)

\* the fraction num/den
Fraction(num, den) == [num |-> num, den |-> den]

\* np.abs(cents_diff[mask]) over the aligned pair as given (not smoothed)
AbsCents(f_a, f_r) == MaskedAbs(CentsDiff(f_a, f_r), ValidMask(f_a, f_r), 1)

\* mutant: the mean is taken over the median-filtered cents
MeanCentsSmoothed(f_a, f_r) ==
    IF AnyTrue(ValidMask(f_a, f_r))
    THEN LET w == MaskedAbs(Smoothed(CentsDiff(f_a, f_r), ValidMask(f_a, f_r),
                                     DefaultSmoothWindow),
                            ValidMask(f_a, f_r), 1)
         IN  Fraction(SumSeq(w, 1), Len(w))
    ELSE Fraction(0, 1)

\* mean_cents of compute_score
MeanCents(f_a, f_r) ==
    IF AnyTrue(ValidMask(f_a, f_r))
    THEN Fraction(SumSeq(AbsCents(f_a, f_r), 1), Len(AbsCents(f_a, f_r)))
    ELSE Fraction(0, 1)

\* max_cents of upload_files
MaxCents(f_a, f_r) ==
    IF AnyTrue(ValidMask(f_a, f_r))
    THEN KthSmallest(AbsCents(f_a, f_r), Len(AbsCents(f_a, f_r)))
    ELSE 0

\* mutant: the correct frames are counted among the compared frames only
compute_score_valid_only(f_a, f_r, errors, total_frames) ==
    [correct_frames |-> Len(AbsCents(f_a, f_r)) - Len(errors),
     mean_cents |-> MeanCents(f_a, f_r)]

compute_score(f_a, f_r, errors, total_frames) ==
    [correct_frames |-> total_frames - Len(errors),
     mean_cents |-> MeanCents(f_a, f_r)]

\* mutant: the share of the incorrect frames
AccuracyOfErrors(correct_frames, total_frames) ==
    IF total_frames > 0
    THEN Fraction((total_frames - correct_frames) * 100, total_frames)
    ELSE Fraction(0, 1)

\* accuracy of upload_files, in percent
Accuracy(correct_frames, total_frames) ==
    IF total_frames > 0
    THEN Fraction(correct_frames * 100, total_frames)
    ELSE Fraction(0, 1)

\* upload_files: the score and the additional metrics
ComputeScore ==
    /\ pc = "detected"
    /\ \E sc \in { compute_score(f_audio_aligned, f_ref_aligned, error_indices,
                                 Len(f_audio_aligned)) } :
         score' = [total_frames |-> Len(f_audio_aligned),
                   incorrect_frames |-> Len(error_indices),
                   correct_frames |-> sc.correct_frames,
                   mean_cents |-> sc.mean_cents,
                   max_cents |-> MaxCents(f_audio_aligned, f_ref_aligned),
                   accuracy |-> Accuracy(sc.correct_frames,
                                         Len(f_audio_aligned))]
    /\ pc' = "done"
    /\ UNCHANGED << upload_vars, midi_vars, MAX_DTW_LENGTH, f_audio, f_ref, threshold_cents,
                    dynamic_threshold,
                    ignore_silence, smooth_window, min_error_frames, dtw,
                    route, f_audio_aligned, f_ref_aligned, error_indices,
                    detect_calls, error >>

----------------------------------------------------------------------------
(* detect_errors called directly on any well-formed aligned pair *)

\* a frame of an aligned pair: << performance, reference >>; both silent,
\* one silent, in tune, 100 cents flat, one octave sharp
FrameKinds ==
    { <<0, 0>>, <<0, 69>>, <<69, 0>>, <<69, 69>>, <<68, 69>>, <<81, 69>> }

AlignedPairs == UNION { [1..m -> FrameKinds] : m \in 1..MaxFrames }

\* performance [440, 440, 440, 880, 880] against reference [440] * 5
ScenarioPair ==
    << << 69, 69 >>, << 69, 69 >>, << 69, 69 >>, << 81, 69 >>, << 81, 69 >> >>

Column(frames, c) == AsSeq([i \in 1..Len(frames) |-> frames[i][c]])

\* threshold_cents: 0 asks for the adaptive threshold
Thresholds == {0, 40, 150}

\* smooth_window: none, even, odd
SmoothWindows == {1, 2, 3}

MinErrorFrames == {1, 2, 3}

InitDetect ==
    /\ MAX_DTW_LENGTH = MaxLen
    /\ pc = "aligned"
    /\ \E frames \in AlignedPairs \cup { ScenarioPair } :
         /\ f_audio = Column(frames, 1)
         /\ f_ref = Column(frames, 2)
         /\ f_audio_aligned = Column(frames, 1)
         /\ f_ref_aligned = Column(frames, 2)
    /\ threshold_cents \in Thresholds
    /\ dynamic_threshold = NoThreshold
    /\ ignore_silence \in BOOLEAN
    /\ smooth_window \in SmoothWindows
    /\ min_error_frames \in MinErrorFrames
    /\ dtw = NotCalled
    /\ route = "none"
    /\ error_indices = << >>
    /\ detect_calls = 0
    /\ score = NoScore
    /\ error = "none"
    /\ midi = NoMidi
    /\ target_sr = TARGET_SAMPLING_RATE
    /\ instrument_index = 0
    /\ merge_instruments = FALSE
    /\ NoRequest

NextDetect ==
    \/ DetectErrors
    \/ DetectAgain
    \/ ComputeScore

SpecDetect == InitDetect /\ [][NextDetect]_vars

----------------------------------------------------------------------------
(* upload_files: one analysis request, from the contours to the summary *)

AllZero(c) == \A i \in 1..Len(c) : c[i] = 0

\* extract_pitch: a contour, or ValueError when no pitch is detected
ExtractPitch ==
    /\ pc = "extract"
    /\ \E c \in ShortContours :
         IF AllZero(c)
         THEN /\ error' = "ValueError"
              /\ pc' = "error"
              /\ UNCHANGED f_audio
         ELSE /\ f_audio' = c
              /\ pc' = "parse"
              /\ UNCHANGED error
    /\ UNCHANGED << upload_vars, midi_vars, MAX_DTW_LENGTH, f_ref, threshold_cents,
                    dynamic_threshold, ignore_silence,
                    smooth_window, min_error_frames, dtw, route,
                    f_audio_aligned, f_ref_aligned, error_indices,
                    detect_calls, score >>

\* parse_midi: the reference timeline (empty when the file has no instrument)
ParseMidi ==
    /\ pc = "parse"
    /\ \E c \in ShortContours : f_ref' = c
    /\ pc' = "validate"
    /\ UNCHANGED << upload_vars, midi_vars, MAX_DTW_LENGTH, f_audio, threshold_cents,
                    dynamic_threshold, ignore_silence,
                    smooth_window, min_error_frames, dtw, route,
                    f_audio_aligned, f_ref_aligned, error_indices,
                    detect_calls, score, error >>

\* mutant: only the performance contour is tested
ValidateContoursAudioOnly ==
    /\ pc = "validate"
    /\ IF Len(f_audio) = 0
       THEN error' = "ValueError" /\ pc' = "error"
       ELSE error' = error /\ pc' = "align"
    /\ UNCHANGED << upload_vars, midi_vars, MAX_DTW_LENGTH, f_audio, f_ref,
                    threshold_cents, dynamic_threshold,
                    ignore_silence, smooth_window, min_error_frames, dtw,
                    route, f_audio_aligned, f_ref_aligned, error_indices,
                    detect_calls, score >>

\* "Validate that we have data"
ValidateContours ==
    /\ pc = "validate"
    /\ IF Len(f_audio) = 0 \/ Len(f_ref) = 0
       THEN error' = "ValueError" /\ pc' = "error"
       ELSE error' = error /\ pc' = "align"
    /\ UNCHANGED << upload_vars, midi_vars, MAX_DTW_LENGTH, f_audio, f_ref, threshold_cents,
                    dynamic_threshold,
                    ignore_silence, smooth_window, min_error_frames, dtw,
                    route, f_audio_aligned, f_ref_aligned, error_indices,
                    detect_calls, score >>

\* config.DEFAULT_THRESHOLD_CENTS
DefaultThresholdCents == 40

\* threshold_cents of a request: Query(ge = 0.0, le = 200.0)
RequestThresholds == {0, 40}

\* upload_files passes neither smooth_window nor min_error_frames, so
\* detect_errors runs with its defaults
Init ==
    /\ MAX_DTW_LENGTH \in DtwCaps
    /\ pc = "extract"
    /\ f_audio = << >>
    /\ f_ref = << >>
    /\ threshold_cents \in RequestThresholds
    /\ dynamic_threshold = NoThreshold
    /\ ignore_silence \in BOOLEAN
    /\ smooth_window = DefaultSmoothWindow
    /\ min_error_frames = DefaultMinErrorFrames
    /\ dtw = NotCalled
    /\ route = "none"
    /\ f_audio_aligned = << >>
    /\ f_ref_aligned = << >>
    /\ error_indices = << >>
    /\ detect_calls = 0
    /\ score = NoScore
    /\ error = "none"
    /\ midi = NoMidi
    /\ target_sr = TARGET_SAMPLING_RATE
    /\ instrument_index = 0
    /\ merge_instruments = FALSE
    /\ NoRequest

\* align_and_warp is reached with non-empty contours only, so its raise is
\* no step of a request
Next ==
    \/ ExtractPitch
    \/ ParseMidi
    \/ ValidateContours
    \/ AlignFast
    \/ AlignTruncate
    \/ AlignFallback
    \/ AlignDtw
    \/ DetectErrors
    \/ ComputeScore

Spec == Init /\ [][Next]_vars

----------------------------------------------------------------------------
(* parse_midi *)

\* a note time t stands for t / TicksPerSecond seconds
TicksPerSecond == 2

\* latest note time of an enumerated file, in ticks
MaxTick == 4

\* most notes of an enumerated file, all instruments together
MaxNotes == 2

\* most instruments of an enumerated file
MaxTracks == 2

\* A4 and A5
Pitches == {69, 81}

\* pretty_midi.Note: a pitch sounding from start to end
NoteEvents ==
    { n \in [pitch : Pitches, start : 0..MaxTick, end : 0..MaxTick] :
        n.start < n.end }

\* the notes ns dealt out to Len(cuts) + 1 instruments, in order
Split(ns, cuts) ==
    AsSeq([i \in 1..(Len(cuts) + 1) |->
             SubSeq(ns, (IF i = 1 THEN 0 ELSE cuts[i - 1]) + 1,
                        IF i = Len(cuts) + 1 THEN Len(ns) ELSE cuts[i])])

Cuts(n) ==
    { c \in SeqsUpTo(0..n, MaxTracks - 1) :
        \A i \in 2..Len(c) : c[i - 1] <= c[i] }

\* midi.instruments of the files with at most n notes; << >> is a file
\* without instrument
MidiFiles(n) ==
    { << >> } \cup
    UNION { { Split(ns, c) : c \in Cuts(Len(ns)) } :
            ns \in SeqsUpTo(NoteEvents, n) }

\* one instrument with the single note (pitch 69, 0.0 s .. 1.0 s)
ExampleMidi == << << [pitch |-> 69, start |-> 0, end |-> TicksPerSecond] >> >>

\* pretty_midi.note_number_to_hz: a frequency is written as the note number
\* of its pitch throughout (69 for 440.0 Hz), 0 being silence
note_number_to_hz(pitch) == pitch

\* midi.get_end_time(): the latest note end of all instruments
get_end_time(m) ==
    LET ends == UNION { { m[i][j].end : j \in 1..Len(m[i]) } : i \in 1..Len(m) }
    IN  IF ends = {} THEN 0 ELSE CHOOSE e \in ends : \A x \in ends : x <= e

\* int(t * target_sr) for a time of t ticks
FrameOf(t, sr) == (t * sr) \div TicksPerSecond

\* mutant: the frame at end_idx is written too
WriteNoteInclusive(timeline, note, sr, merging) ==
    LET start_idx == FrameOf(note.start, sr)
        end_idx == Min2(FrameOf(note.end, sr), Len(timeline))
    IN  AsSeq([f \in 1..Len(timeline) |->
                 IF start_idx <= f - 1 /\ f - 1 <= end_idx
                 THEN note_number_to_hz(note.pitch)
                 ELSE timeline[f]])

\* one pass of the body of "for note in instrument.notes"
WriteNote(timeline, note, sr, merging) ==
    LET num_frames == Len(timeline)
        start_idx == FrameOf(note.start, sr)
        end_idx == Min2(FrameOf(note.end, sr), num_frames)
        note_freq == note_number_to_hz(note.pitch)
    IN  IF start_idx < num_frames
        THEN AsSeq([f \in 1..num_frames |->
                      IF start_idx <= f - 1 /\ f - 1 < end_idx
                      THEN IF merging THEN Max2(timeline[f], note_freq)
                           ELSE note_freq
                      ELSE timeline[f]])
        ELSE timeline

RECURSIVE FillNotes(_, _, _, _, _)
\* "for note in instrument.notes", from note k on
FillNotes(timeline, notes, k, sr, merging) ==
    IF k > Len(notes) THEN timeline
    ELSE FillNotes(WriteNote(timeline, notes[k], sr, merging), notes, k + 1,
                   sr, merging)

RECURSIVE FillInstruments(_, _, _, _, _)
\* "for instrument in instruments_to_process", from instrument k on
FillInstruments(timeline, instruments, k, sr, merging) ==
    IF k > Len(instruments) THEN timeline
    ELSE FillInstruments(FillNotes(timeline, instruments[k], 1, sr, merging),
                         instruments, k + 1, sr, merging)

\* midi.instruments[i] of Python: a negative i counts from the end, and an i
\* outside -len..len-1 raises IndexError
ListItem(list, i) ==
    IF 0 <= i /\ i < Len(list) THEN [raised |-> "none", item |-> list[i + 1]]
    ELSE IF i < 0 /\ -i <= Len(list)
    THEN [raised |-> "none", item |-> list[Len(list) + i + 1]]
    ELSE [raised |-> "IndexError", item |-> << >>]

\* instruments_to_process
SelectInstruments(m, idx, merge) ==
    IF idx = -1 \/ merge
    THEN [raised |-> "none", instruments |-> m]
    ELSE LET got == ListItem(m, IF idx >= Len(m) THEN 0 ELSE idx)
         IN  [raised |-> got.raised,
              instruments |-> IF got.raised = "none" THEN << got.item >>
                              ELSE << >>]

\* np.zeros(n)
Zeros(n) == AsSeq([f \in 1..n |-> 0])

\* one call on a file that pretty_midi has read: what is raised and what is
\* returned
parse_midi(m, sr, idx, merge) ==
    IF Len(m) = 0
    THEN [raised |-> "none", timeline |-> << >>]
    ELSE LET num_frames == FrameOf(get_end_time(m), sr) + 1
             sel == SelectInstruments(m, idx, merge)
         IN  IF sel.raised # "none"
             THEN [raised |-> sel.raised, timeline |-> << >>]
             ELSE [raised |-> "none",
                   timeline |->
                       FillInstruments(Zeros(num_frames), sel.instruments, 1,
                           sr, merge /\ Len(sel.instruments) > 1)]

\* a call of parse_midi on the file and with the parameters of the state
ParseMidiFile ==
    /\ pc = "parse_midi"
    /\ \E res \in { parse_midi(midi, target_sr, instrument_index,
                              merge_instruments) } :
         /\ f_ref' = res.timeline
         /\ error' = res.raised
         /\ pc' = IF res.raised = "none" THEN "parsed" ELSE "error"
    /\ UNCHANGED << upload_vars, midi_vars, MAX_DTW_LENGTH, f_audio, threshold_cents,
                    dynamic_threshold, ignore_silence, smooth_window,
                    min_error_frames, dtw, route, f_audio_aligned,
                    f_ref_aligned, error_indices, detect_calls, score >>

----------------------------------------------------------------------------
(* parse_midi called directly on any small file *)

\* instrument_index: -1 is "all instruments"
InstrumentIndexes == {-2, -1, 0, 1, 2}

\* one frame per second for the enumerated files, so that a frame spans
\* several ticks; the configured rate for the example file
InitMidi ==
    /\ MAX_DTW_LENGTH = MaxLen
    /\ pc = "parse_midi"
    /\ \/ midi \in MidiFiles(MaxNotes) /\ target_sr = 1
       \/ midi = ExampleMidi /\ target_sr = TARGET_SAMPLING_RATE
    /\ instrument_index \in InstrumentIndexes
    /\ merge_instruments \in BOOLEAN
    /\ f_audio = << >>
    /\ f_ref = << >>
    /\ threshold_cents = 40
    /\ dynamic_threshold = NoThreshold
    /\ ignore_silence = TRUE
    /\ smooth_window = DefaultSmoothWindow
    /\ min_error_frames = DefaultMinErrorFrames
    /\ dtw = NotCalled
    /\ route = "none"
    /\ f_audio_aligned = << >>
    /\ f_ref_aligned = << >>
    /\ error_indices = << >>
    /\ detect_calls = 0
    /\ score = NoScore
    /\ error = "none"
    /\ NoRequest

NextMidi == ParseMidiFile

SpecMidi == InitMidi /\ [][NextMidi]_vars

----------------------------------------------------------------------------
(* upload_files: the whole request, from the uploads to the response *)

\* most files the temporary directory holds at a time
MaxTempFiles == 4

\* names tempfile can give to a file
TempNames == 1..MaxTempFiles

\* mutant: the name is taken whether or not a file has it
NewTempNamesUnchecked(files) == TempNames

\* tempfile.NamedTemporaryFile creates a file under a name no file has
NewTempNames(files) == TempNames \ { f.name : f \in files }

\* the directory after data is written to the file name
WriteFile(files, name, data) ==
    { f \in files : f.name # name } \cup { [name |-> name, data |-> data] }

\* the directory after os.remove(name); a missing file raises, which the
\* handler passes over
RemoveFile(files, name) == { f \in files : f.name # name }

\* the bytes read from the file name; a missing file cannot be loaded
ReadFile(files, name) ==
    IF \E f \in files : f.name = name
    THEN (CHOOSE f \in files : f.name = name).data
    ELSE Garbage

\* the bytes written to the temporary file: the decoded payload of a base64
\* data URI, the uploaded bytes otherwise
Written(upload) == upload.payload

\* "Validate file types" and "Check file sizes"
ValidateUploads ==
    /\ pc = "request"
    /\ IF audio.accepted /\ reference.accepted
       THEN pc' = "save_audio" /\ error' = error
       ELSE pc' = "error" /\ error' = "ValueError"
    /\ UNCHANGED << upload_vars, midi_vars, MAX_DTW_LENGTH, f_audio, f_ref,
                    threshold_cents, dynamic_threshold, ignore_silence,
                    smooth_window, min_error_frames, dtw, route,
                    f_audio_aligned, f_ref_aligned, error_indices,
                    detect_calls, score >>

\* one "with tempfile.NamedTemporaryFile(delete=False, ...)" block: the file
\* is created, then written, and only then is its name kept in the path
\* variable; outcome says what failed
SaveOutcomes == {"saved", "create_fails", "write_fails"}

SaveUpload(upload, outcome, name) ==
    [files |-> IF outcome = "saved"
               THEN WriteFile(tmp_files, name, Written(upload))
               ELSE IF outcome = "write_fails"
               THEN WriteFile(tmp_files, name, EmptyFile)
               ELSE tmp_files,
     path |-> IF outcome = "saved" THEN name ELSE NoPath,
     raised |-> IF outcome = "saved" THEN "none" ELSE "OSError"]

SaveAudio ==
    /\ pc = "save_audio"
    /\ \E name \in NewTempNames(tmp_files) : \E outcome \in SaveOutcomes :
         \E saved \in { SaveUpload(audio, outcome, name) } :
            /\ tmp_files' = saved.files
            /\ audio_path' = saved.path
            /\ error' = saved.raised
            /\ pc' = IF saved.raised = "none" THEN "save_ref" ELSE "error"
    /\ UNCHANGED << request_vars, ref_path, response, suspended, midi_vars,
                    MAX_DTW_LENGTH, f_audio, f_ref,
                    threshold_cents, dynamic_threshold, ignore_silence,
                    smooth_window, min_error_frames, dtw, route,
                    f_audio_aligned, f_ref_aligned, error_indices,
                    detect_calls, score >>

SaveReference ==
    /\ pc = "save_ref"
    /\ \E name \in NewTempNames(tmp_files) : \E outcome \in SaveOutcomes :
         \E saved \in { SaveUpload(reference, outcome, name) } :
            /\ tmp_files' = saved.files
            /\ ref_path' = saved.path
            /\ error' = saved.raised
            /\ pc' = IF saved.raised = "none" THEN "extract_file" ELSE "error"
    /\ UNCHANGED << request_vars, audio_path, response, suspended, midi_vars,
                    MAX_DTW_LENGTH, f_audio, f_ref,
                    threshold_cents, dynamic_threshold, ignore_silence,
                    smooth_window, min_error_frames, dtw, route,
                    f_audio_aligned, f_ref_aligned, error_indices,
                    detect_calls, score >>

\* extract_pitch on the bytes of a file: ValueError if they cannot be loaded
\* or no pitch is detected
extract_pitch(data) ==
    IF data.kind = "audio" /\ ~AllZero(data.contour)
    THEN [raised |-> "none", contour |-> data.contour]
    ELSE [raised |-> "ValueError", contour |-> << >>]

\* f_audio = extract_pitch(audio_path, ...); every exception becomes ValueError
ExtractPitchUpload ==
    /\ pc = "extract_file"
    /\ \E res \in { extract_pitch(ReadFile(tmp_files, audio_path)) } :
         /\ f_audio' = res.contour
         /\ error' = res.raised
         /\ pc' = IF res.raised = "none" THEN "parse_file" ELSE "error"
    /\ UNCHANGED << upload_vars, midi_vars, MAX_DTW_LENGTH, f_ref,
                    threshold_cents, dynamic_threshold, ignore_silence,
                    smooth_window, min_error_frames, dtw, route,
                    f_audio_aligned, f_ref_aligned, error_indices,
                    detect_calls, score >>

\* parse_midi on the bytes of a file: pretty_midi cannot read anything but a
\* MIDI file
parse_midi_file(data, sr, idx, merge) ==
    IF data.kind = "midi" THEN parse_midi(data.instruments, sr, idx, merge)
    ELSE [raised |-> "ValueError", timeline |-> << >>]

\* f_ref = parse_midi(ref_path, ...); every exception becomes ValueError
ParseMidiUpload ==
    /\ pc = "parse_file"
    /\ \E res \in { parse_midi_file(ReadFile(tmp_files, ref_path), target_sr,
                                   instrument_index, merge_instruments) } :
         /\ f_ref' = res.timeline
         /\ error' = IF res.raised = "none" THEN "none" ELSE "ValueError"
         /\ pc' = IF res.raised = "none" THEN "validate" ELSE "error"
    /\ UNCHANGED << upload_vars, midi_vars, MAX_DTW_LENGTH, f_audio,
                    threshold_cents, dynamic_threshold, ignore_silence,
                    smooth_window, min_error_frames, dtw, route,
                    f_audio_aligned, f_ref_aligned, error_indices,
                    detect_calls, score >>

\* the fields AnalysisResult declares
AnalysisResultFields ==
    { "total_frames", "correct_frames", "incorrect_frames", "mean_cents",
      "max_cents", "accuracy_percent", "error_indices", "duration_seconds",
      "threshold_cents" }

\* an assignment to an attribute of a pydantic model: a name that is no
\* declared field raises ValueError
SetAttribute(fields, name) ==
    IF name \in fields THEN "none" ELSE "ValueError"

\* mutant: the list is returned whole
LimitIndicesOff(indices, limit) == indices

\* error_indices_list: at most MAX_ERROR_INDICES_RETURNED indices
LimitIndices(indices, limit) ==
    IF Len(indices) > limit THEN Slice(indices, limit) ELSE indices

\* AnalysisResult(...); the pitch_data argument is no declared field and is
\* dropped by the model
BuildResult(sc, indices, limit, sr, threshold) ==
    [total_frames |-> sc.total_frames,
     correct_frames |-> sc.correct_frames,
     incorrect_frames |-> sc.incorrect_frames,
     mean_cents |-> sc.mean_cents,
     max_cents |-> sc.max_cents,
     accuracy_percent |-> sc.accuracy,
     error_indices |-> LimitIndices(indices, limit),
     duration_seconds |-> Fraction(sc.total_frames, sr),
     threshold_cents |-> threshold]

\* what generate_recommendations does: it returns a text, returns None or
\* raises
RecommendationOutcomes == {"text", "None", "Exception"}

\* "Optionally generate practice recommendations": every branch ends in an
\* assignment to result.recommendations, the one of the try block in two
\* (the handler of its exception assigns again)
Recommend(flag, enabled, outcome) ==
    IF ~flag THEN "none"
    ELSE IF ~enabled THEN SetAttribute(AnalysisResultFields, "recommendations")
    ELSE IF outcome # "Exception"
              /\ SetAttribute(AnalysisResultFields, "recommendations") = "none"
    THEN "none"
    ELSE SetAttribute(AnalysisResultFields, "recommendations")

\* from "Limit error indices" to "return result"
ReturnResult ==
    /\ pc = "done"
    /\ \E outcome \in RecommendationOutcomes :
         \E raised \in { Recommend(generate_recommendations_flag,
                                   ENABLE_RECOMMENDATIONS, outcome) } :
            /\ error' = raised
            /\ IF raised = "none"
               THEN /\ response' =
                          [status |-> 200,
                           body |-> BuildResult(score, error_indices,
                                        MAX_ERROR_INDICES_RETURNED, target_sr,
                                        threshold_cents)]
                    /\ pc' = "return"
               ELSE /\ response' = response
                    /\ pc' = "error"
    /\ UNCHANGED << request_vars, tmp_files, audio_path, ref_path, suspended,
                    midi_vars, MAX_DTW_LENGTH, f_audio, f_ref,
                    threshold_cents, dynamic_threshold, ignore_silence,
                    smooth_window, min_error_frames, dtw, route,
                    f_audio_aligned, f_ref_aligned, error_indices,
                    detect_calls, score >>

\* "except ValueError" and "except Exception": the HTTPException raised
StatusOf(raised) == IF raised = "ValueError" THEN 400 ELSE 500

HandleError ==
    /\ pc = "error"
    /\ response' = [status |-> StatusOf(error), body |-> NoResult]
    /\ pc' = "raise"
    /\ UNCHANGED << request_vars, tmp_files, audio_path, ref_path, suspended,
                    midi_vars, MAX_DTW_LENGTH, f_audio, f_ref,
                    threshold_cents, dynamic_threshold, ignore_silence,
                    smooth_window, min_error_frames, dtw, route,
                    f_audio_aligned, f_ref_aligned, error_indices,
                    detect_calls, score, error >>

\* the finally block: "if audio_path: os.remove(audio_path)", the same for
\* ref_path
RemoveTemporaryFiles(files, a_path, r_path) ==
    LET after_audio == IF a_path # NoPath THEN RemoveFile(files, a_path)
                       ELSE files
    IN  IF r_path # NoPath THEN RemoveFile(after_audio, r_path)
        ELSE after_audio

\* the finally block runs, then the response leaves the handler
Finally ==
    /\ pc \in {"return", "raise"}
    /\ tmp_files' = RemoveTemporaryFiles(tmp_files, audio_path, ref_path)
    /\ pc' = "responded"
    /\ UNCHANGED << request_vars, audio_path, ref_path, response, suspended,
                    midi_vars, MAX_DTW_LENGTH, f_audio, f_ref,
                    threshold_cents, dynamic_threshold, ignore_silence,
                    smooth_window, min_error_frames, dtw, route,
                    f_audio_aligned, f_ref_aligned, error_indices,
                    detect_calls, score, error >>

\* one note of pitch 69 from 0.0 s to end ticks
OneNote(end) == << << [pitch |-> 69, start |-> 0, end |-> end] >> >>

\* a raw upload and a data URI upload of the same bytes
Raw(data) == [accepted |-> TRUE, data_uri |-> FALSE, payload |-> data]
DataUri(data) == [accepted |-> TRUE, data_uri |-> TRUE, payload |-> data]

\* uploads of a performance: an octave sharp for four frames, in tune for
\* two frames, silence, bytes that are no recording, a refused upload
AudioUploads ==
    { Raw(Recording(<< 81, 81, 81, 81 >>)),
      DataUri(Recording(<< 69, 69 >>)),
      Raw(Recording(<< 0, 0 >>)),
      Raw(Garbage),
      [accepted |-> FALSE, data_uri |-> FALSE, payload |-> Garbage] }

\* uploads of a reference: a note of 3 s and one of 2 s (four and three
\* frames at one frame per second), an instrument without notes, a file
\* without instruments, bytes that are no MIDI file, a refused upload
ReferenceUploads ==
    { Raw(MidiFile(OneNote(3 * TicksPerSecond))),
      DataUri(MidiFile(OneNote(2 * TicksPerSecond))),
      Raw(MidiFile(<< << >> >>)),
      Raw(MidiFile(<< >>)),
      Raw(Garbage),
      [accepted |-> FALSE, data_uri |-> FALSE, payload |-> Garbage] }

\* values of the MAX_ERROR_INDICES_RETURNED environment setting
IndexLimits == {2, 10000}

\* the locals of a request that has not started, the parameters of the calls
\* upload_files makes with their defaults
RequestStart ==
    /\ pc = "request"
    /\ f_audio = << >>
    /\ f_ref = << >>
    /\ dynamic_threshold = NoThreshold
    /\ smooth_window = DefaultSmoothWindow
    /\ min_error_frames = DefaultMinErrorFrames
    /\ dtw = NotCalled
    /\ route = "none"
    /\ f_audio_aligned = << >>
    /\ f_ref_aligned = << >>
    /\ error_indices = << >>
    /\ detect_calls = 0
    /\ score = NoScore
    /\ error = "none"
    /\ midi = NoMidi
    /\ instrument_index = 0
    /\ merge_instruments = FALSE
    /\ audio_path = NoPath
    /\ ref_path = NoPath
    /\ response = NoResponse

\* one request; TARGET_SR is set to one frame per second
InitUpload ==
    /\ RequestStart
    /\ MAX_DTW_LENGTH \in DtwCaps
    /\ target_sr = 1
    /\ audio \in AudioUploads
    /\ reference \in ReferenceUploads
    /\ threshold_cents \in RequestThresholds
    /\ ignore_silence \in BOOLEAN
    /\ generate_recommendations_flag \in BOOLEAN
    /\ ENABLE_RECOMMENDATIONS \in BOOLEAN
    /\ MAX_ERROR_INDICES_RETURNED \in IndexLimits
    /\ tmp_files = {}
    /\ suspended = << >>

NextUpload ==
    \/ ValidateUploads
    \/ SaveAudio
    \/ SaveReference
    \/ ExtractPitchUpload
    \/ ParseMidiUpload
    \/ ValidateContours
    \/ AlignFast
    \/ AlignTruncate
    \/ AlignFallback
    \/ AlignDtw
    \/ DetectErrors
    \/ ComputeScore
    \/ ReturnResult
    \/ HandleError
    \/ Finally

SpecUpload == InitUpload /\ [][NextUpload]_vars

----------------------------------------------------------------------------
(* Several upload requests in progress at once *)

\* requests in progress at a time
MaxRequests == 2

\* the local variables and parameters of the running call of upload_files
Locals ==
    [pc |-> pc, audio |-> audio, reference |-> reference,
     threshold_cents |-> threshold_cents, ignore_silence |-> ignore_silence,
     generate_recommendations_flag |-> generate_recommendations_flag,
     f_audio |-> f_audio, f_ref |-> f_ref,
     dynamic_threshold |-> dynamic_threshold, dtw |-> dtw, route |-> route,
     f_audio_aligned |-> f_audio_aligned, f_ref_aligned |-> f_ref_aligned,
     error_indices |-> error_indices, detect_calls |-> detect_calls,
     score |-> score, error |-> error, audio_path |-> audio_path,
     ref_path |-> ref_path, response |-> response]

\* the locals of a call that has not started
StartLocals(a, r, t, ign, flag) ==
    [pc |-> "request", audio |-> a, reference |-> r,
     threshold_cents |-> t, ignore_silence |-> ign,
     generate_recommendations_flag |-> flag,
     f_audio |-> << >>, f_ref |-> << >>,
     dynamic_threshold |-> NoThreshold, dtw |-> NotCalled, route |-> "none",
     f_audio_aligned |-> << >>, f_ref_aligned |-> << >>,
     error_indices |-> << >>, detect_calls |-> 0,
     score |-> NoScore, error |-> "none", audio_path |-> NoPath,
     ref_path |-> NoPath, response |-> NoResponse]

\* the running call stops between two of its steps and the call that has
\* waited longest goes on; each call keeps its own locals, the temporary
\* directory and the configuration are common to all
Switch ==
    /\ Len(suspended) > 0
    /\ suspended' = Append(Tail(suspended), Locals)
    /\ \E next \in { Head(suspended) } :
         /\ pc' = next.pc
         /\ audio' = next.audio
         /\ reference' = next.reference
         /\ threshold_cents' = next.threshold_cents
         /\ ignore_silence' = next.ignore_silence
         /\ generate_recommendations_flag' = next.generate_recommendations_flag
         /\ f_audio' = next.f_audio
         /\ f_ref' = next.f_ref
         /\ dynamic_threshold' = next.dynamic_threshold
         /\ dtw' = next.dtw
         /\ route' = next.route
         /\ f_audio_aligned' = next.f_audio_aligned
         /\ f_ref_aligned' = next.f_ref_aligned
         /\ error_indices' = next.error_indices
         /\ detect_calls' = next.detect_calls
         /\ score' = next.score
         /\ error' = next.error
         /\ audio_path' = next.audio_path
         /\ ref_path' = next.ref_path
         /\ response' = next.response
    /\ UNCHANGED << midi_vars, MAX_DTW_LENGTH, smooth_window,
                    min_error_frames, ENABLE_RECOMMENDATIONS,
                    MAX_ERROR_INDICES_RETURNED, tmp_files >>

\* uploads of the concurrent requests
ConcurrentAudio ==
    { Raw(Recording(<< 81, 81, 81, 81 >>)), DataUri(Recording(<< 69, 69 >>)) }

ConcurrentReference ==
    { Raw(MidiFile(OneNote(3 * TicksPerSecond))),
      DataUri(MidiFile(OneNote(2 * TicksPerSecond))) }

\* a request that waits to start
WaitingRequests ==
    { StartLocals(a, r, DefaultThresholdCents, TRUE, FALSE) :
        a \in ConcurrentAudio, r \in ConcurrentReference }

\* MaxRequests requests, one running and the others waiting to start
InitConcurrent ==
    /\ RequestStart
    /\ MAX_DTW_LENGTH = MaxLen
    /\ target_sr = 1
    /\ audio \in ConcurrentAudio
    /\ reference \in ConcurrentReference
    /\ threshold_cents = DefaultThresholdCents
    /\ ignore_silence = TRUE
    /\ generate_recommendations_flag = FALSE
    /\ ENABLE_RECOMMENDATIONS = FALSE
    /\ MAX_ERROR_INDICES_RETURNED = 10000
    /\ tmp_files = {}
    /\ suspended \in [1..(MaxRequests - 1) -> WaitingRequests]

NextConcurrent ==
    \/ NextUpload
    \/ Switch

SpecConcurrent == InitConcurrent /\ [][NextConcurrent]_vars

----------------------------------------------------------------------------
(* Claims about align_and_warp, checked under SpecAlign *)

\* align_and_warp has returned or raised
AlignDone == route # "none"

NonEmptyInputs == Len(f_audio) > 0 /\ Len(f_ref) > 0

\* max(n1,n2)/min(n1,n2) < 1.1, for non-empty inputs
RatioBelow11 ==
    10 * Max2(Len(f_audio), Len(f_ref)) < 11 * Min2(Len(f_audio), Len(f_ref))

MinInputLen == Min2(Len(f_audio), Len(f_ref))

\* C1: for every pair of non-empty input contours align_and_warp returns
\* (it does not raise) two sequences of identical length, whichever of its
\* paths it takes.
C1_EqualLength ==
    (AlignDone /\ NonEmptyInputs)
        => /\ error = "none"
           /\ route \in {"fast", "truncate", "fallback", "dtw"}
           /\ Len(f_audio_aligned) = Len(f_ref_aligned)

\* the full DTW path on inputs of different lengths, output longer than both
C1_Witness ==
    /\ route = "dtw"
    /\ Len(f_audio) # Len(f_ref)
    /\ Len(f_audio_aligned) > Max2(Len(f_audio), Len(f_ref))
    /\ Len(f_audio_aligned) = Len(f_ref_aligned)

\* C2: when max(n1,n2)/min(n1,n2) < 1.1 DTW is not run and the result is the
\* first min(n1,n2) frames of each input, whatever MAX_DTW_LENGTH is; equal
\* lengths give (A, B) back unchanged.
C2_FastPath ==
    (AlignDone /\ NonEmptyInputs /\ RatioBelow11)
        => /\ dtw = NotCalled
           /\ error = "none"
           /\ f_audio_aligned = SubSeq(f_audio, 1, MinInputLen)
           /\ f_ref_aligned = SubSeq(f_ref, 1, MinInputLen)
           /\ (Len(f_audio) = Len(f_ref)
                 => f_audio_aligned = f_audio /\ f_ref_aligned = f_ref)

\* near-equal but different lengths, both above MAX_DTW_LENGTH
C2_Witness ==
    /\ route = "fast"
    /\ Len(f_audio) # Len(f_ref)
    /\ MinInputLen > MAX_DTW_LENGTH
    /\ Len(f_audio_aligned) = MinInputLen

\* C3: DTW is never invoked on an input longer than MAX_DTW_LENGTH; when an
\* input (of a non-empty pair) is longer than MAX_DTW_LENGTH and the lengths
\* are not within 10%, the result is the first min(n1, n2, MAX_DTW_LENGTH)
\* frames of each input.
C3_LengthGuard ==
    /\ (dtw # NotCalled
          => Len(f_audio) <= MAX_DTW_LENGTH /\ Len(f_ref) <= MAX_DTW_LENGTH)
    /\ (/\ AlignDone
        /\ NonEmptyInputs
        /\ ~RatioBelow11
        /\ (Len(f_audio) > MAX_DTW_LENGTH \/ Len(f_ref) > MAX_DTW_LENGTH))
        => /\ error = "none"
           /\ f_audio_aligned =
                SubSeq(f_audio, 1, Min2(MinInputLen, MAX_DTW_LENGTH))
           /\ f_ref_aligned =
                SubSeq(f_ref, 1, Min2(MinInputLen, MAX_DTW_LENGTH))

\* both inputs longer than MAX_DTW_LENGTH and cut down to it
C3_Witness ==
    /\ route = "truncate"
    /\ MinInputLen > MAX_DTW_LENGTH
    /\ Len(f_audio_aligned) = MAX_DTW_LENGTH
    /\ Len(f_ref_aligned) = MAX_DTW_LENGTH

\* C4: for non-empty inputs align_and_warp always succeeds; when the DTW
\* computation raises MemoryError or any other exception the result is the
\* first min(n1,n2) frames of each input, and that length equals
\* min(n1, n2, MAX_DTW_LENGTH).
C4_DtwFailureFallback ==
    /\ (AlignDone /\ NonEmptyInputs) => (error = "none" /\ pc # "error")
    /\ (AlignDone /\ dtw.raised \in {"MemoryError", "Exception"})
        => /\ error = "none"
           /\ f_audio_aligned = SubSeq(f_audio, 1, MinInputLen)
           /\ f_ref_aligned = SubSeq(f_ref, 1, MinInputLen)
           /\ MinInputLen = Min2(MinInputLen, MAX_DTW_LENGTH)

\* fastdtw raised on inputs of different lengths and the call returned
C4_Witness ==
    /\ dtw.raised = "Exception"
    /\ route = "fallback"
    /\ Len(f_audio) > Len(f_ref)
    /\ Len(f_audio_aligned) = Len(f_ref)

\* C5: with an input of length 0 align_and_warp raises ValueError (not the
\* ZeroDivisionError of the length ratio), runs no DTW and returns no pair.
C5_EmptyInputRaises ==
    (AlignDone /\ ~NonEmptyInputs)
        => /\ pc = "error"
           /\ error = "ValueError"
           /\ route = "raise"
           /\ dtw = NotCalled
           /\ f_audio_aligned = << >>
           /\ f_ref_aligned = << >>

\* an empty reference against a non-empty performance
C5_Witness ==
    /\ route = "raise"
    /\ Len(f_audio) > 0
    /\ Len(f_ref) = 0
    /\ error = "ValueError"

\* the path is non-decreasing in both components and covers every index
PathMonotoneCovering(path, n1, n2) ==
    /\ \A k \in 1..(Len(path) - 1) :
         path[k][1] <= path[k + 1][1] /\ path[k][2] <= path[k + 1][2]
    /\ \A i \in 0..(n1 - 1) : \E k \in 1..Len(path) : path[k][1] = i
    /\ \A j \in 0..(n2 - 1) : \E k \in 1..Len(path) : path[k][2] = j

\* first position of the path whose component c is index i
FirstAt(path, c, i) ==
    CHOOSE k \in 1..Len(path) :
        path[k][c] = i /\ \A l \in 1..(k - 1) : path[l][c] # i

\* seq appears in out, in order, at the first positions of its indices
AppearsInOrder(seq, out, path, c) ==
    /\ \A i \in 0..(Len(seq) - 1) : out[FirstAt(path, c, i)] = seq[i + 1]
    /\ \A i \in 0..(Len(seq) - 2) : FirstAt(path, c, i) < FirstAt(path, c, i + 1)

\* C6: on the full DTW path, with a monotone covering path, the output has
\* length m = len(path), aligned1[k] = seq1[i_k] and aligned2[k] = seq2[j_k];
\* every input frame appears in its output in the original order and
\* max(n1,n2) <= m <= n1+n2-1.
C6_WarpAlongPath ==
    (route = "dtw" /\ PathMonotoneCovering(dtw.path, Len(f_audio), Len(f_ref)))
        => /\ Len(f_audio_aligned) = Len(dtw.path)
           /\ Len(f_ref_aligned) = Len(dtw.path)
           /\ \A k \in 1..Len(dtw.path) :
                /\ f_audio_aligned[k] = f_audio[dtw.path[k][1] + 1]
                /\ f_ref_aligned[k] = f_ref[dtw.path[k][2] + 1]
           /\ AppearsInOrder(f_audio, f_audio_aligned, dtw.path, 1)
           /\ AppearsInOrder(f_ref, f_ref_aligned, dtw.path, 2)
           /\ Max2(Len(f_audio), Len(f_ref)) <= Len(dtw.path)
           /\ Len(dtw.path) <= Len(f_audio) + Len(f_ref) - 1

\* a path of the greatest length over inputs whose frames differ
C6_Witness ==
    /\ route = "dtw"
    /\ Len(f_audio) >= 2
    /\ Len(f_ref) >= 2
    /\ Len(f_audio) # Len(f_ref)
    /\ f_audio[1] # f_audio[2]
    /\ f_ref[1] # f_ref[2]
    /\ Len(dtw.path) = Len(f_audio) + Len(f_ref) - 1
    /\ PathMonotoneCovering(dtw.path, Len(f_audio), Len(f_ref))

----------------------------------------------------------------------------
(* Claims about detect_errors, checked under SpecDetect *)

SetOf(seq) == { seq[k] : k \in 1..Len(seq) }

\* the call with the pair, silence policy and window of the state
DetectWith(t, mef) ==
    detect_errors(f_audio_aligned, f_ref_aligned, t, ignore_silence,
                  smooth_window, mef)

FixedThresholds == {40, 150, 1200}

\* C9: for a fixed aligned pair, ignore_silence and smooth_window, with
\* min_error_frames <= 1, the error indices for a larger positive threshold
\* are a subset of those for a smaller one.
C9_ThresholdMonotone ==
    (pc = "detected" /\ threshold_cents > 0 /\ min_error_frames <= 1)
        => \A t \in FixedThresholds :
             \E other \in { DetectWith(t, min_error_frames) } :
                /\ other.raised = "none"
                /\ (threshold_cents < t
                      => SetOf(other.indices) \subseteq SetOf(error_indices))
                /\ (t < threshold_cents
                      => SetOf(error_indices) \subseteq SetOf(other.indices))

\* the call with threshold 40 flagged strictly more than threshold 150 would
C9_Witness ==
    /\ pc = "detected"
    /\ threshold_cents = 40
    /\ min_error_frames = 1
    /\ SetOf(DetectWith(150, 1).indices) # {}
    /\ SetOf(DetectWith(150, 1).indices) # SetOf(error_indices)
    /\ SetOf(DetectWith(150, 1).indices) \subseteq SetOf(error_indices)

\* the raw error set of the state's pair and parameters
RawSet ==
    SetOf(RawErrorIndices(f_audio_aligned, f_ref_aligned, threshold_cents,
                          ignore_silence, smooth_window))

\* the maximal run of consecutive members of S that contains i
RunOf(S, i) ==
    { j \in S : \A x \in Min2(i, j)..Max2(i, j) : x \in S }

\* the members of the maximal runs of S of at least mef members (all of S
\* when mef <= 1)
LongRuns(S, mef) ==
    { i \in S : mef <= 1 \/ Cardinality(RunOf(S, i)) >= mef }

\* the returned indices are the long runs of the raw error set; with
\* min_error_frames 1, 0 or -1 they are the raw error set itself
FilterKeepsLongRuns ==
    \E raw \in { RawSet } :
        /\ SetOf(error_indices) = LongRuns(raw, min_error_frames)
        /\ min_error_frames = 1
             => \A mef \in {-1, 0} :
                  SetOf(DetectWith(threshold_cents, mef).indices) = raw

\* C10: the returned error indices are exactly the members of the maximal
\* runs of consecutive raw-error indices of length >= min_error_frames; with
\* min_error_frames <= 1 nothing is discarded; raw errors {5,6,20} with
\* min_error_frames = 2 give {5,6}.
C10_RunLengthFilter ==
    /\ (pc = "detected") => FilterKeepsLongRuns
    /\ FilterRuns(<< 5, 6, 20 >>, 2) = << 5, 6 >>

\* the pair has a frame where both contours are voiced, so that detect_errors
\* does not return at its "no valid frames" test
SomeValidFrame == AnyTrue(ValidMask(f_audio_aligned, f_ref_aligned))

\* C10 for the calls that reach the classification of raw errors
C10_FilterWhenClassified ==
    /\ (pc = "detected" /\ SomeValidFrame) => FilterKeepsLongRuns
    /\ FilterRuns(<< 5, 6, 20 >>, 2) = << 5, 6 >>

\* a run of two kept and an isolated raw error dropped
C10_FilterWitness ==
    /\ pc = "detected"
    /\ min_error_frames = 2
    /\ RawSet = {0, 1, 3}
    /\ error_indices = << 0, 1 >>

\* no frame is voiced in both contours, filtering is off, the silence
\* mismatches are raw errors, and nothing is returned
C10_Witness ==
    /\ pc = "detected"
    /\ detect_calls = 1
    /\ min_error_frames = 1
    /\ ~ignore_silence
    /\ ~SomeValidFrame
    /\ RawSet # {}
    /\ error_indices = << >>

----------------------------------------------------------------------------
(* Further claims about detect_errors, checked under SpecDetect *)

\* C11: the sequence returned by detect_errors is strictly increasing and
\* every element is a frame index in 0..m-1, m the length of the aligned pair.
C11_IndicesIncreasing ==
    (pc = "detected")
        => \A k \in 1..Len(error_indices) :
             /\ error_indices[k] \in 0..(Len(f_audio_aligned) - 1)
             /\ k > 1 => error_indices[k - 1] < error_indices[k]

\* run-length filtering on: an isolated raw error is dropped and the kept run
\* ends at the last frame
C11_Witness ==
    /\ pc = "detected"
    /\ min_error_frames = 2
    /\ Len(f_audio_aligned) = 4
    /\ RawSet = {0, 2, 3}
    /\ error_indices = << 2, 3 >>

\* |cents| of the valid frames as the threshold resolution sees them, that is
\* after the smoothing step
ValidAbsCents ==
    MaskedAbs(Smoothed(CentsDiff(f_audio_aligned, f_ref_aligned),
                       ValidMask(f_audio_aligned, f_ref_aligned), smooth_window),
              ValidMask(f_audio_aligned, f_ref_aligned), 1)

\* the lower of the two middle values of w: fewer than half of the entries are
\* below it and at least half are not above it
LowerMiddle(w) ==
    CHOOSE a \in SetOf(w) :
        /\ 2 * Cardinality({ j \in 1..Len(w) : w[j] < a }) < Len(w)
        /\ 2 * Cardinality({ j \in 1..Len(w) : w[j] <= a }) >= Len(w)

\* the upper of the two middle values of w
UpperMiddle(w) ==
    CHOOSE b \in SetOf(w) :
        /\ 2 * Cardinality({ j \in 1..Len(w) : w[j] > b }) < Len(w)
        /\ 2 * Cardinality({ j \in 1..Len(w) : w[j] >= b }) >= Len(w)

\* C12: a positive threshold is applied verbatim; a non-positive one, given at
\* least one valid frame, is replaced by median(|cents| over valid frames) + 10
\* clamped to [10, 200], which therefore lies in [10, 200].
C12_ThresholdResolution ==
    (pc = "detected" /\ SomeValidFrame)
        => IF threshold_cents > 0
           THEN dynamic_threshold = threshold_cents
           ELSE \E w \in { ValidAbsCents } :
                  \E twice \in { LowerMiddle(w) + UpperMiddle(w) + 20 } :
                     /\ 2 * dynamic_threshold = Max2(20, Min2(twice, 400))
                     /\ dynamic_threshold >= 10
                     /\ dynamic_threshold <= 200

\* adaptive mode, an even number of valid frames whose two middle values
\* differ, so that the median is their midpoint
C12_Witness ==
    /\ pc = "detected"
    /\ threshold_cents = 0
    /\ SomeValidFrame
    /\ LowerMiddle(ValidAbsCents) = 0
    /\ UpperMiddle(ValidAbsCents) = 100
    /\ dynamic_threshold = 60

\* frame i (1-based position) is silent in exactly one of the two contours
SilenceMismatch(i) == (f_audio_aligned[i] = 0) # (f_ref_aligned[i] = 0)

\* every frame silent on one side only is among the returned indices
MismatchesFlagged ==
    \A i \in 1..Len(f_audio_aligned) :
        SilenceMismatch(i) => (i - 1) \in SetOf(error_indices)

\* C13: with ignore_silence = False and min_error_frames <= 1, every frame
\* where exactly one of the two aligned contours is silent is in the returned
\* error index set, for every aligned pair and every threshold.
C13_SilenceMismatchFlagged ==
    (pc = "detected" /\ ~ignore_silence /\ min_error_frames <= 1)
        => MismatchesFlagged

\* C13 for the pairs with a frame voiced in both contours, where
\* detect_errors gets as far as the classification
C13_FlaggedWhenClassified ==
    (pc = "detected" /\ ~ignore_silence /\ min_error_frames <= 1
       /\ SomeValidFrame)
        => MismatchesFlagged

\* a pair without any frame voiced in both contours: both frames are silence
\* mismatches and none is returned
C13_Witness ==
    /\ pc = "detected"
    /\ ~ignore_silence
    /\ min_error_frames = 1
    /\ f_audio_aligned = << 69, 0 >>
    /\ f_ref_aligned = << 0, 69 >>
    /\ error_indices = << >>

C15_DetectNeverRaises ==
    /\ pc # "error"
    /\ error = "none"

\* C15 for the calls that do not run the median filter with an even window
C15_RaisesOnlyEvenWindow ==
    (pc = "error")
        => /\ error = "ValueError"
           /\ smooth_window % 2 = 0
           /\ Len(f_audio_aligned) > smooth_window
           /\ SomeValidFrame

\* the first call on a three-frame, fully voiced pair with smooth_window = 2
\* ends in ValueError
C15_Witness ==
    /\ pc = "error"
    /\ error = "ValueError"
    /\ detect_calls = 1
    /\ smooth_window = 2
    /\ f_audio_aligned = << 69, 69, 69 >>
    /\ f_ref_aligned = << 69, 69, 69 >>

\* the scenario's call: [440,440,440,880,880] against [440,440,440,440,440],
\* threshold 40, min_error_frames 1, silence ignored, default smoothing
ScenarioCall ==
    /\ f_audio_aligned = << 69, 69, 69, 81, 81 >>
    /\ f_ref_aligned = << 69, 69, 69, 69, 69 >>
    /\ threshold_cents = 40
    /\ min_error_frames = 1
    /\ ignore_silence
    /\ smooth_window = 3

\* the fraction q equals the integer n
FractionIs(q, n) == q.den > 0 /\ q.num = n * q.den

\* C16: the scenario yields error index set {3,4}, mean_cents = 480.0 over
\* 5 valid frames, max_cents = 1200.0 and accuracy = 60.0 percent.
C16_Scenario ==
    ScenarioCall
        => /\ pc \in {"detected", "done"} => error_indices = << 3, 4 >>
           /\ pc = "done"
                => /\ FractionIs(score.mean_cents, 480)
                   /\ score.mean_cents.den = 5
                   /\ score.max_cents = 1200
                   /\ FractionIs(score.accuracy, 60)
                   /\ score.total_frames = 5
                   /\ score.incorrect_frames = 2

\* the scenario detected once and scored
C16_Witness ==
    /\ ScenarioCall
    /\ pc = "done"
    /\ detect_calls = 1
    /\ score.correct_frames = 3

----------------------------------------------------------------------------
(* Claims about the summary, checked under SpecDetect *)

\* the frames (1-based positions) voiced in both aligned contours
ValidFrames ==
    { i \in 1..Len(f_audio_aligned) :
        f_audio_aligned[i] > 0 /\ f_ref_aligned[i] > 0 }

\* |1200 * log2(performance / reference)| at frame i of the aligned pair
AbsDeviation(i) == Abs(100 * (f_audio_aligned[i] - f_ref_aligned[i]))

RECURSIVE SumDeviation(_)
SumDeviation(S) ==
    IF S = {} THEN 0
    ELSE LET i == CHOOSE j \in S : TRUE
         IN  AbsDeviation(i) + SumDeviation(S \ {i})

\* C17: mean_cents and max_cents are the mean and the maximum of
\* |1200*log2(performance/reference)| over all frames where both aligned
\* contours are voiced, computed from the unsmoothed pair; both are 0.0 when
\* there is no such frame.
C17_MeanAndMax ==
    (pc = "done")
        => \E V \in { ValidFrames } :
             IF V = {}
             THEN score.mean_cents.num = 0 /\ score.max_cents = 0
             ELSE /\ score.mean_cents.den > 0
                  /\ score.mean_cents.num * Cardinality(V)
                       = score.mean_cents.den * SumDeviation(V)
                  /\ \E i \in V : score.max_cents = AbsDeviation(i)
                  /\ \A i \in V : score.max_cents >= AbsDeviation(i)

\* an octave glitch of one frame that the median filter removes: no error is
\* returned, yet the maximum is 1200 and the mean 400 over three valid frames
C17_Witness ==
    /\ pc = "done"
    /\ smooth_window = 3
    /\ threshold_cents = 40
    /\ f_audio_aligned = << 69, 81, 69, 0 >>
    /\ f_ref_aligned = << 69, 69, 69, 69 >>
    /\ error_indices = << >>
    /\ score.max_cents = 1200
    /\ score.mean_cents = Fraction(1200, 3)

----------------------------------------------------------------------------
(* Claims about the summary, checked under Spec *)

\* C7: for every aligned pair and the error indices the detector produced for
\* it, correct_frames + incorrect_frames = total_frames and
\* 0 <= correct_frames <= total_frames.
C7_FramesAddUp ==
    (pc = "done")
        => /\ score.total_frames = Len(f_audio_aligned)
           /\ score.incorrect_frames = Len(error_indices)
           /\ score.correct_frames + score.incorrect_frames = score.total_frames
           /\ 0 <= score.correct_frames
           /\ score.correct_frames <= score.total_frames

\* a summary with correct, incorrect and not compared (silent) frames
C7_Witness ==
    /\ pc = "done"
    /\ score.incorrect_frames > 0
    /\ score.correct_frames > 0
    /\ \E i \in 1..Len(f_audio_aligned) : f_audio_aligned[i] = 0

----------------------------------------------------------------------------
(* Claims about parse_midi, checked under SpecMidi *)

\* the call selects exactly one instrument: no merge, index not -1
SingleTrackMode == ~merge_instruments /\ instrument_index # -1

\* the instrument a valid or too large index stands for (1-based position)
SelectedTrack ==
    IF instrument_index < Len(midi) THEN instrument_index + 1 ELSE 1

\* floor(t * rate) for t ticks, by its defining inequalities
FloorFrame(t) ==
    CHOOSE f \in 0..(t * target_sr) :
        /\ f * TicksPerSecond <= t * target_sr
        /\ t * target_sr < (f + 1) * TicksPerSecond

\* note covers frame f of a contour of the given length
Covers(note, f, length) ==
    /\ FloorFrame(note.start) <= f
    /\ f < Min2(FloorFrame(note.end), length)

\* the latest note end of the whole file
Duration ==
    IF \A i \in 1..Len(midi) : Len(midi[i]) = 0 THEN 0
    ELSE CHOOSE e \in 0..MaxTick \cup {TicksPerSecond} :
           /\ \E i \in 1..Len(midi) : \E j \in 1..Len(midi[i]) : midi[i][j].end = e
           /\ \A i \in 1..Len(midi) : \A j \in 1..Len(midi[i]) : midi[i][j].end <= e

\* C18: in single-track mode the contour has length floor(duration*rate) + 1
\* and frame f holds the frequency of the last note of the selected track, in
\* iteration order, with floor(start*rate) <= f < min(floor(end*rate), length),
\* and 0.0 if no note covers f; one note (69, 0.0-1.0) at 100 fps gives length
\* 101, frames 0..99 = 440.0 and frame 100 = 0.0.
C18_SingleTrackTimeline ==
    (pc = "parsed" /\ SingleTrackMode /\ instrument_index >= 0 /\ Len(midi) > 0)
        => \E notes \in { midi[SelectedTrack] } :
             /\ Len(f_ref) = FloorFrame(Duration) + 1
             /\ \A f \in 0..(Len(f_ref) - 1) :
                  \E covering \in { { k \in 1..Len(notes) :
                                        Covers(notes[k], f, Len(f_ref)) } } :
                     IF covering = {}
                     THEN f_ref[f + 1] = 0
                     ELSE \E k \in covering :
                            /\ \A other \in covering : other <= k
                            /\ f_ref[f + 1] = notes[k].pitch
             /\ (midi = ExampleMidi /\ target_sr = 100)
                  => /\ Len(f_ref) = 101
                     /\ \A f \in 0..99 : f_ref[f + 1] = 69
                     /\ f_ref[101] = 0

\* two overlapping notes on the selected track, the later one lower, both
\* starting inside frame 0: the later one is heard where they overlap
C18_Witness ==
    /\ pc = "parsed"
    /\ SingleTrackMode
    /\ instrument_index = 0
    /\ midi = << << [pitch |-> 81, start |-> 1, end |-> 4],
                    [pitch |-> 69, start |-> 0, end |-> 2] >> >>
    /\ f_ref = << 69, 81, 0 >>

\* the frequencies of all notes of all instruments sounding at frame f
SoundingAt(f) ==
    UNION { { midi[i][j].pitch :
                j \in { k \in 1..Len(midi[i]) :
                          Covers(midi[i][k], f, Len(f_ref)) } } :
            i \in 1..Len(midi) }

\* every frame holds the highest frequency sounding at it, 0 if none
FramesHoldMaximum ==
    \A f \in 0..(Len(f_ref) - 1) :
        \E sounding \in { SoundingAt(f) } :
            IF sounding = {} THEN f_ref[f + 1] = 0
            ELSE /\ f_ref[f + 1] \in sounding
                 /\ \A x \in sounding : x <= f_ref[f + 1]

\* C19: in merge-all-tracks mode every frame of the contour equals the
\* maximum frequency over all notes of all tracks sounding at that frame
\* (0.0 if none), for any number of tracks, exactly one included, and
\* independently of the order of tracks and notes.
C19_MergeMaximum ==
    (pc = "parsed" /\ merge_instruments)
        => /\ Len(f_ref) = (IF Len(midi) = 0 THEN 0 ELSE FloorFrame(Duration) + 1)
           /\ FramesHoldMaximum

\* C19 for files with two or more instruments
C19_MergeMaximumOfSeveral ==
    (pc = "parsed" /\ merge_instruments /\ Len(midi) > 1)
        => /\ Len(f_ref) = FloorFrame(Duration) + 1
           /\ FramesHoldMaximum

\* merge mode on a file with one instrument whose later note is the lower of
\* two overlapping ones: frame 0 holds the later note, not the higher
C19_Witness ==
    /\ pc = "parsed"
    /\ merge_instruments
    /\ instrument_index = -1
    /\ midi = << << [pitch |-> 81, start |-> 1, end |-> 4],
                    [pitch |-> 69, start |-> 0, end |-> 2] >> >>
    /\ f_ref = << 69, 81, 0 >>

\* the call is over, by return or by exception
ParseOver == pc \in {"parsed", "error"}

\* the contour is the one built from instrument 0 and nothing was raised
BuiltFromTrack0 ==
    /\ pc = "parsed"
    /\ error = "none"
    /\ f_ref = parse_midi(midi, target_sr, 0, FALSE).timeline

\* C20: in single-track selection, for every requested index that is not a
\* valid track index (index >= number of tracks, or a negative index other
\* than -1), parse_midi builds the contour from track 0 and raises no error.
C20_IndexFallback ==
    (ParseOver /\ SingleTrackMode /\ Len(midi) > 0
       /\ (instrument_index >= Len(midi) \/ instrument_index < -1))
        => BuiltFromTrack0

\* C20 for the indices that are too large
C20_FallbackAboveRange ==
    (ParseOver /\ SingleTrackMode /\ Len(midi) > 0
       /\ instrument_index >= Len(midi))
        => BuiltFromTrack0

\* index -2 on a file with one instrument: the call ends in IndexError
C20_Witness ==
    /\ pc = "error"
    /\ error = "IndexError"
    /\ SingleTrackMode
    /\ instrument_index = -2
    /\ midi = << << [pitch |-> 69, start |-> 0, end |-> 4] >> >>

----------------------------------------------------------------------------
(* Selection modes of parse_midi, checked under SpecMidi *)

\* the two supported requests: one track by index (no merge), all tracks
\* merged (merge without a specific index)
SingleTrackRequest == ~merge_instruments /\ instrument_index # -1
MergeAllRequest == merge_instruments /\ instrument_index = -1
UnsupportedRequest == ~SingleTrackRequest /\ ~MergeAllRequest

\* C21: parse_midi accepts only "single track by index" and "merge all
\* tracks"; any other request (index -1 without merge, or merge together with
\* a specific index) ends in a configuration error and produces no contour.
C21_UnsupportedModeRejected ==
    (ParseOver /\ Len(midi) > 0 /\ UnsupportedRequest)
        => (pc = "error" /\ error # "none" /\ f_ref = << >>)

\* index -1 without merge: every instrument is written, nothing is raised
C21_Witness ==
    /\ pc = "parsed"
    /\ error = "none"
    /\ instrument_index = -1
    /\ ~merge_instruments
    /\ midi = << << [pitch |-> 69, start |-> 0, end |-> 2] >>,
                 << [pitch |-> 81, start |-> 2, end |-> 4] >> >>
    /\ f_ref = << 69, 81, 0 >>

----------------------------------------------------------------------------
(* The smoothing step of detect_errors, checked under SpecDetect *)

\* the cents sequence before smoothing, 0 at invalid frames and outside 0..n-1
UnsmoothedAt(j) ==
    IF j \in 1..Len(f_audio_aligned)
         /\ f_audio_aligned[j] > 0 /\ f_ref_aligned[j] > 0
    THEN 100 * (f_audio_aligned[j] - f_ref_aligned[j])
    ELSE 0

\* v is a median of the smooth_window values centred on frame i: it is one of
\* them, and fewer than half of them lie on either side of it
IsWindowMedian(v, i) ==
    LET h == (smooth_window - 1) \div 2
        around == (i - h)..(i + h)
    IN  /\ \E j \in around : UnsmoothedAt(j) = v
        /\ Cardinality({ j \in around : UnsmoothedAt(j) < v }) <= h
        /\ Cardinality({ j \in around : UnsmoothedAt(j) > v }) <= h

\* the condition under which the claim has the filter run
WindowFits == smooth_window > 1 /\ Len(f_audio_aligned) > smooth_window

\* what the claim gives for frame i (1-based position) after the step
ClaimedCentsAt(i) ==
    IF UnsmoothedAt(i) = 0 /\ ~ValidMask(f_audio_aligned, f_ref_aligned)[i]
    THEN 0
    ELSE IF WindowFits
    THEN CHOOSE v \in { UnsmoothedAt(j) : j \in (i - smooth_window)..(i + smooth_window) } :
           IsWindowMedian(v, i)
    ELSE UnsmoothedAt(i)

ClaimedCents == AsSeq([i \in 1..Len(f_audio_aligned) |-> ClaimedCentsAt(i)])

\* C26: smoothing is applied exactly when smooth_window > 1 and the sequence
\* is longer than the window; afterwards every invalid frame still has cents
\* 0 and every valid frame has the median of the window centred on it, taken
\* over the unsmoothed cents with invalid frames and positions beyond either
\* end counting as 0.  The threshold and the error indices of the call are the
\* ones obtained from that sequence.
C26_Smoothing ==
    (pc = "detected" /\ SomeValidFrame) =>
        LET mask == ValidMask(f_audio_aligned, f_ref_aligned)
            cents0 == CentsDiff(f_audio_aligned, f_ref_aligned)
            claimed == ResolveAndClassify(f_audio_aligned, f_ref_aligned,
                           mask, ClaimedCents, threshold_cents,
                           ignore_silence, min_error_frames)
        IN  /\ SmoothingApplies(cents0, smooth_window) = WindowFits
            /\ Smoothed(cents0, mask, smooth_window) = ClaimedCents
            /\ error_indices = claimed.indices
            /\ dynamic_threshold = claimed.threshold

\* window 3 over cents [0, 1200, (invalid), 0]: the lone octave error is
\* smoothed away, and the invalid frame keeps 0
C26_Witness ==
    /\ pc = "detected"
    /\ smooth_window = 3
    /\ min_error_frames = 1
    /\ threshold_cents = 40
    /\ f_audio_aligned = << 69, 81, 0, 69 >>
    /\ f_ref_aligned = << 69, 69, 69, 69 >>
    /\ ~ignore_silence
    /\ error_indices = << 2 >>

----------------------------------------------------------------------------
(* Threshold monotonicity with the run-length filter, under SpecDetect *)

\* C27: for a fixed aligned pair, ignore_silence and smooth_window, any
\* min_error_frames >= 2 and any positive thresholds T1 < T2, the filtered
\* error indices for T2 are a subset of the filtered error indices for T1.
C27_FilteredMonotone ==
    (pc = "detected" /\ threshold_cents > 0 /\ min_error_frames >= 2)
        => \A t \in FixedThresholds :
             \E other \in { DetectWith(t, min_error_frames) } :
                /\ other.raised = "none"
                /\ (threshold_cents < t
                      => SetOf(other.indices) \subseteq SetOf(error_indices))
                /\ (t < threshold_cents
                      => SetOf(error_indices) \subseteq SetOf(other.indices))

\* threshold 40 keeps a run of three frames, of which threshold 150 keeps the
\* last two
C27_Witness ==
    /\ pc = "detected"
    /\ threshold_cents = 40
    /\ min_error_frames = 2
    /\ smooth_window = 1
    /\ f_audio_aligned = << 68, 81, 81 >>
    /\ f_ref_aligned = << 69, 69, 69 >>
    /\ error_indices = << 0, 1, 2 >>
    /\ DetectWith(150, 2).indices = << 1, 2 >>

----------------------------------------------------------------------------
(* Files without note events, checked under SpecMidi *)

\* the file has no note event: no instrument at all, or only instruments
\* whose note list is empty (pretty_midi creates an instrument for a channel
\* that carries only control changes or pitch bends)
NoNoteEvents == \A i \in 1..Len(midi) : Len(midi[i]) = 0

\* C22: when the reference holds zero note events (no tracks at all, or only
\* tracks without notes), parse_midi returns a contour of length 0, which the
\* upload request answers with a user-facing error.
C22_NoNotesEmptyContour ==
    (ParseOver /\ NoNoteEvents)
        => (pc = "parsed" /\ error = "none" /\ Len(f_ref) = 0)

\* C22 for the files without any instrument
C22_NoInstrumentEmptyContour ==
    (ParseOver /\ Len(midi) = 0)
        => (pc = "parsed" /\ error = "none" /\ Len(f_ref) = 0)

\* one instrument without notes: the contour is one silent frame
C22_Witness ==
    /\ pc = "parsed"
    /\ error = "none"
    /\ midi = << << >> >>
    /\ SingleTrackRequest
    /\ instrument_index = 0
    /\ f_ref = << 0 >>

----------------------------------------------------------------------------
(* Claims about upload_files, checked under SpecUpload *)

\* the request is in its analysis part: alignment, detection or scoring is
\* about to run or has run
InAnalysis == pc \in {"align", "aligned", "detected", "done", "return"}

\* both uploads were saved and a contour came out empty
EmptyContour ==
    /\ audio_path # NoPath
    /\ ref_path # NoPath
    /\ (Len(f_audio) = 0 \/ Len(f_ref) = 0)

\* place of a step in the order contours, alignment, detection, scoring
StepRank ==
    [request |-> 0, save_audio |-> 1, save_ref |-> 2, extract_file |-> 3,
     parse_file |-> 4, validate |-> 5, align |-> 6, aligned |-> 7,
     detected |-> 8, done |-> 9, return |-> 10, error |-> 11, raise |-> 12,
     responded |-> 13]

C24_State ==
    /\ InAnalysis => (Len(f_audio) > 0 /\ Len(f_ref) > 0)
    /\ route # "none" => (Len(f_audio) > 0 /\ Len(f_ref) > 0)
    /\ detect_calls > 0 => route # "none"
    /\ score # NoScore => detect_calls > 0
    /\ detect_calls <= 1
    /\ (pc = "responded" /\ EmptyContour)
         => /\ response.status = 400
            /\ route = "none"
            /\ detect_calls = 0
            /\ score = NoScore

C24_Step ==
    /\ pc # "responded"
    /\ StepRank[pc'] > StepRank[pc]
    /\ detect_calls' # detect_calls => pc = "aligned"
    /\ score' # score => pc = "detected"
    /\ route' # route => pc = "align"

Succeeded == pc = "responded" /\ response.status = 200

C25_FixedThresholdReported ==
    (Succeeded /\ dynamic_threshold # NoThreshold /\ threshold_cents > 0)
        => response.body.threshold_cents = dynamic_threshold

C29_TemporaryFilesDeleted ==
    pc = "responded" => tmp_files = {}

\* C29 for the requests in which no write to a temporary file failed
C29_DeletedUnlessWriteFailed ==
    (pc = "responded" /\ error # "OSError") => tmp_files = {}

\* the write of the audio upload failed: 500, and the file created for it is
\* still there
C29_Witness ==
    /\ pc = "responded"
    /\ response.status = 500
    /\ error = "OSError"
    /\ audio_path = NoPath
    /\ ref_path = NoPath
    /\ tmp_files = { [name |-> 1, data |-> EmptyFile] }

\* alignment, detection and scoring of the request went through
Analysed == detect_calls = 1 /\ score # NoScore

\* the full analysis result of the request
FullResult ==
    BuildResult(score, error_indices, MAX_ERROR_INDICES_RETURNED, target_sr,
                threshold_cents)

C30_SucceedsWithoutFlag ==
    (pc = "responded" /\ Analysed /\ ~generate_recommendations_flag)
        => (response.status = 200 /\ response.body = FullResult)

----------------------------------------------------------------------------
(* Independence of concurrent requests, checked under SpecConcurrent *)

\* the error response of status s
ErrorResponse(s) == [status |-> s, body |-> NoResult]

\* the summary upload_files computes for an aligned pair and its errors
SummaryOf(a1, a2, errors) ==
    LET sc == compute_score(a1, a2, errors, Len(a1))
    IN  [total_frames |-> Len(a1),
         incorrect_frames |-> Len(errors),
         correct_frames |-> sc.correct_frames,
         mean_cents |-> sc.mean_cents,
         max_cents |-> MaxCents(a1, a2),
         accuracy |-> Accuracy(sc.correct_frames, Len(a1))]

\* the responses to the analysis of two non-empty contours, one for each
\* thing the fastdtw call can do
AnalysisResponses(f_a, f_r, t, ign) ==
    { LET al == align_and_warp(f_a, f_r, MAX_DTW_LENGTH, d)
          det == detect_errors(al.aligned1, al.aligned2, t, ign,
                               smooth_window, min_error_frames)
      IN  IF al.raised # "none" \/ det.raised # "none"
          THEN ErrorResponse(400)
          ELSE [status |-> 200,
                body |-> BuildResult(
                             SummaryOf(al.aligned1, al.aligned2, det.indices),
                             det.indices, MAX_ERROR_INDICES_RETURNED,
                             target_sr, t)] :
      d \in DtwOutcomes(f_a, f_r, MAX_DTW_LENGTH) }

\* the responses a request with the locals req can get when no other request
\* is in progress: 500 if a temporary file cannot be written, otherwise what
\* its own two uploads give
AloneResponses(req) ==
    IF ~(req.audio.accepted /\ req.reference.accepted)
    THEN { ErrorResponse(400) }
    ELSE { ErrorResponse(500) } \cup
         LET ex == extract_pitch(Written(req.audio))
             pm == parse_midi_file(Written(req.reference), target_sr,
                                   instrument_index, merge_instruments)
         IN  IF ex.raised # "none" \/ pm.raised # "none"
                  \/ Len(ex.contour) = 0 \/ Len(pm.timeline) = 0
             THEN { ErrorResponse(400) }
             ELSE IF req.generate_recommendations_flag
             THEN { ErrorResponse(400) }
             ELSE AnalysisResponses(ex.contour, pm.timeline,
                                    req.threshold_cents, req.ignore_silence)

\* every request in progress, the running one first
Requests == << Locals >> \o suspended

\* the temporary files a request holds until its finally block has run
PathsOf(req) ==
    IF req.pc = "responded" THEN {}
    ELSE { req.audio_path, req.ref_path } \ { NoPath }

\* the files of req hold what req wrote to them
OwnFilesIntact(req) ==
    req.pc \notin {"responded"} =>
        /\ req.audio_path # NoPath
             => ReadFile(tmp_files, req.audio_path) = Written(req.audio)
        /\ req.ref_path # NoPath
             => ReadFile(tmp_files, req.ref_path) = Written(req.reference)

====
